---- MODULE Spec2Model ----
(***************************************************************************)
(* Single-node ledger engine of blockchain_validator_storyteller.rs:       *)
(* transaction admission (BlockchainChronicler::transaction_story_arrives),*)
(* the background mining loop (begin_the_eternal_mining_quest,             *)
(* mine_new_chapter, perform_proof_of_work), the chain repository          *)
(* (ChainRepository) and the UTXO ledger (UTXOLedger).                     *)
(*                                                                         *)
(* Strings of the program are TLA+ strings.  A SHA-256 hex digest is the   *)
(* symbolic string "sha256(<input>)": equal inputs give equal digests and  *)
(* different inputs different digests (a collision-free hash).  Its leading*)
(* zero characters, which proof of work searches for, are prefixed to it   *)
(* and decided by the last character hashed (LeadingHexZeros).             *)
(* A u64 is a tuple of four 16-bit limbs, most significant first, so that  *)
(* the 64-bit width of the program's arithmetic is kept.                   *)
(***************************************************************************)
EXTENDS Integers, Sequences, FiniteSets, TLC

VARIABLES
    phase,              \* "Idle" before new_chronicle_begins, then "Running"
    build,              \* the build profile: are overflow checks compiled in
    configuration,      \* BlockchainChronicler.configuration
    mempool,            \* BlockchainChronicler.mempool_of_pending_tales
    block_db,           \* ChainRepository.block_db   (chapter_number -> block)
    tx_db,              \* ChainRepository.tx_db      (story_id -> story)
    chain_tip,          \* ChainRepository.chain_tip  (<<>> is None)
    block_index,        \* ChainRepository.block_index (set of <<essence, number>>)
    utxo_db,            \* the sled store "utxos"     (key -> output)
    unspent_outputs,    \* UTXOLedger.unspent_outputs (in-memory cache)
    spent_outputs,      \* UTXOLedger.spent_outputs
    miner_pc,           \* position of the task spawned by begin_the_eternal_mining_quest
    selected,           \* the batch drained from the pool by that task
    broadcasts,         \* story ids handed to broadcast_transaction_story
    event,              \* the last operation and what it returned
    pow_block,          \* perform_proof_of_work: the block searched, <<>> if none
    workers,            \* perform_proof_of_work: the state of each spawned worker
    channel,            \* perform_proof_of_work: the (hash, nonce) pairs sent
    pow_pc,             \* perform_proof_of_work: "recv" at rx.recv().await
    pow_out,            \* perform_proof_of_work: what it returned
    wallet_guardian,    \* defi_protocol_tool: a WalletGuardian made on its own (<<>> if none)
    orchestrator,       \* defi_protocol_tool: the DeFiStoryOrchestrator (<<>> if none)
    saga                \* MEV guardian: the transaction and how its saga ended (<<>> if none)

ledger_vars == <<phase, build, configuration, mempool, block_db, tx_db,
                 chain_tip, block_index, utxo_db, unspent_outputs,
                 spent_outputs, miner_pc, selected, broadcasts, event>>

pow_vars == <<pow_block, workers, channel, pow_pc, pow_out>>

\* the two programs beside the ledger engine
tool_vars == <<wallet_guardian, orchestrator, saga>>

vars == <<ledger_vars, pow_vars, tool_vars>>

-----------------------------------------------------------------------------
(* Bounds of the model *)

MaxChapters == 2
NumThreads == 2

MaxBatch == 3

-----------------------------------------------------------------------------
(* u64 arithmetic on 16-bit limbs *)

LimbBase == 65536

U64(n) == <<0, 0, 0, n>>

U64_MAX == <<65535, 65535, 65535, 65535>>

Widen(x) == <<0>> \o x

\* exact sum of two 5-limb numbers (the top limb absorbs the carries)
WideAdd(x, y) ==
    LET s5 == x[5] + y[5]
        s4 == x[4] + y[4] + (s5 \div LimbBase)
        s3 == x[3] + y[3] + (s4 \div LimbBase)
        s2 == x[2] + y[2] + (s3 \div LimbBase)
        s1 == x[1] + y[1] + (s2 \div LimbBase)
    IN  <<s1, s2 % LimbBase, s3 % LimbBase, s4 % LimbBase, s5 % LimbBase>>

RECURSIVE LimbsLess(_, _)
LimbsLess(x, y) ==
    IF x = <<>> THEN FALSE
    ELSE IF Head(x) # Head(y) THEN Head(x) < Head(y)
    ELSE LimbsLess(Tail(x), Tail(y))

u64_lt(x, y) == LimbsLess(x, y)

\* u64::checked_add: None is <<>>, Some(v) is <<v>>
checked_add(x, y) ==
    LET w == WideAdd(Widen(x), Widen(y))
    IN  IF w[1] # 0 THEN <<>> ELSE <<Tail(w)>>

\* u64 `+` and Iterator::sum: wraps when overflow checks are off, panics
\* when they are on; [ok |-> FALSE] is the panic
plain_add(x, y, overflow_checks) ==
    LET w == WideAdd(Widen(x), Widen(y))
    IN  IF w[1] # 0 /\ overflow_checks
        THEN [ok |-> FALSE, val |-> U64(0)]
        ELSE [ok |-> TRUE, val |-> Tail(w)]

\* u64 `-`: wraps when overflow checks are off, panics when they are on
plain_sub(x, y, overflow_checks) ==
    LET complement == [i \in 1..4 |-> (LimbBase - 1) - y[i]]
        w == WideAdd(WideAdd(Widen(x), Widen(complement)), Widen(U64(1)))
    IN  IF u64_lt(x, y) /\ overflow_checks
        THEN [ok |-> FALSE, val |-> U64(0)]
        ELSE [ok |-> TRUE, val |-> Tail(w)]

\* u64 `/ 2`
half(x) ==
    LET q1 == x[1] \div 2
        q2 == ((x[1] % 2) * LimbBase + x[2]) \div 2
        q3 == ((x[2] % 2) * LimbBase + x[3]) \div 2
        q4 == ((x[3] % 2) * LimbBase + x[4]) \div 2
    IN  <<q1, q2, q3, q4>>

RECURSIVE BitLen(_)
BitLen(n) == IF n = 0 THEN 0 ELSE 1 + BitLen(n \div 2)

\* u64::leading_zeros
leading_zeros(x) ==
    IF x[1] # 0 THEN 16 - BitLen(x[1])
    ELSE IF x[2] # 0 THEN 32 - BitLen(x[2])
    ELSE IF x[3] # 0 THEN 48 - BitLen(x[3])
    ELSE 64 - BitLen(x[4])

\* quotient and remainder of a u64 by ten, for its decimal Display form
DivMod10(x) ==
    LET d1 == x[1]
        d2 == (d1 % 10) * LimbBase + x[2]
        d3 == (d2 % 10) * LimbBase + x[3]
        d4 == (d3 % 10) * LimbBase + x[4]
    IN  [quot |-> <<d1 \div 10, d2 \div 10, d3 \div 10, d4 \div 10>>,
         rem |-> d4 % 10]

\* the decimal digits of a u64, most significant first; "" for zero
DecDigits[x \in [1..4 -> 0..(LimbBase - 1)]] ==
    IF x = <<0, 0, 0, 0>> THEN ""
    ELSE DecDigits[DivMod10(x).quot] \o ToString(DivMod10(x).rem)

\* `{}` of a u64 held in limbs
u64_to_string(x) == IF x = <<0, 0, 0, 0>> THEN "0" ELSE DecDigits[x]

RECURSIVE ExactSum(_)
ExactSum(vals) ==
    IF vals = <<>> THEN Widen(U64(0))
    ELSE WideAdd(Widen(Head(vals)), ExactSum(Tail(vals)))

-----------------------------------------------------------------------------
(* Strings and digests *)

RECURSIVE repeat(_, _)
repeat(s, n) == IF n = 0 THEN "" ELSE s \o repeat(s, n - 1)

\* the leading hex zeros of a digest, decided by the last character hashed:
\* a stand-in for the unpredictable leading digits of SHA-256
LeadingHexZeros(data) ==
    LET last == IF data = "" THEN "" ELSE SubSeq(data, Len(data), Len(data))
    IN  IF last = "3" THEN "0" ELSE IF last = "7" THEN "00" ELSE ""

Sha256Hex(data) == LeadingHexZeros(data) \o "sha256(" \o data \o ")"

\* str::starts_with
starts_with(text, prefix) ==
    Len(prefix) <= Len(text) /\ SubSeq(text, 1, Len(prefix)) = prefix

\* to_le_bytes of a fixed-width integer: a self-delimiting field
le_bytes(digits) == "[" \o digits \o "]"

-----------------------------------------------------------------------------
(* Data model *)

PublicKeys == {"alice", "bob"}

\* ScriptOfTruth of a pay-to-public-key output
PayToPublicKey(key) ==
    [script_type |-> "PayToPublicKey", required_signatures |-> 1,
     public_keys |-> <<key>>]

\* UTXOOutput
Output(recipient, value) ==
    [recipient_address |-> recipient, value_locked |-> value,
     locking_script |-> PayToPublicKey(recipient)]

\* UTXOReference
Ref(id, index) == [previous_story_id |-> id, output_index |-> index]

\* the key of an output in the unspent-output store
utxo_key(input) ==
    input.previous_story_id \o ":" \o ToString(input.output_index)

\* ChronicleConfiguration (the fields the modelled code reads)
DefaultConfiguration ==
    [difficulty_adjustment_interval |-> 2016,
     min_transaction_fee |-> U64(1000),
     base_mining_reward |-> <<0, 1, 10757, 61952>>]

\* a configuration with a low fee floor and a short adjustment interval
LowFeeConfiguration ==
    [difficulty_adjustment_interval |-> 1,
     min_transaction_fee |-> U64(50),
     base_mining_reward |-> <<0, 1, 10757, 61952>>]

Configurations == {DefaultConfiguration, LowFeeConfiguration}

EmptyMap == [k \in {} |-> {}]

\* the unspent-output store found in the data directory at start-up
FundedStore ==
    [k \in {"g:0", "g:1"} |->
        IF k = "g:0" THEN Output("alice", U64(1000))
        ELSE Output("bob", U64(100))]

InitialStores == {EmptyMap, FundedStore}

-----------------------------------------------------------------------------
(* Signatures *)

RECURSIVE InputsBytes(_)
InputsBytes(inputs) ==
    IF inputs = <<>> THEN ""
    ELSE Head(inputs).previous_story_id
         \o le_bytes(ToString(Head(inputs).output_index))
         \o InputsBytes(Tail(inputs))

RECURSIVE OutputsBytes(_)
OutputsBytes(outputs) ==
    IF outputs = <<>> THEN ""
    ELSE Head(outputs).recipient_address
         \o le_bytes(u64_to_string(Head(outputs).value_locked))
         \o OutputsBytes(Tail(outputs))

create_signable_message(story) ==
    story.story_id
    \o le_bytes(ToString(story.timestamp_of_telling))
    \o le_bytes(ToString(story.transaction_nonce))
    \o InputsBytes(story.inputs_consumed)
    \o OutputsBytes(story.outputs_created)

\* Keypair::sign: a signature names its signer and the message signed
Sign(key, message) == [signer |-> key, message |-> message]

\* PublicKey::verify of an unforgeable signature scheme
Verify(public_key, message, signature) ==
    signature.signer = public_key /\ signature.message = message

\* the result of signature_tells_the_truth: "InvalidPublicKey",
\* "InvalidSignature" (bytes that do not parse), "true" or "false"
signature_tells_the_truth(story) ==
    IF story.public_key_of_narrator \notin PublicKeys THEN "InvalidPublicKey"
    ELSE IF story.digital_signature = <<>> THEN "InvalidSignature"
    ELSE IF Verify(story.public_key_of_narrator,
                   create_signable_message(story),
                   story.digital_signature[1])
         THEN "true" ELSE "false"

-----------------------------------------------------------------------------
(* Arriving transaction stories *)

StoryIds == {"t1", "t2"}

StoryBodies ==
    { \* 1000 into 950 with fee 50
      [inputs |-> <<Ref("g", 0)>>, outputs |-> <<Output("bob", U64(950))>>,
       fee |-> U64(50), nonce |-> 1],
      \* another spend of the same output, with a higher fee
      [inputs |-> <<Ref("g", 0)>>, outputs |-> <<Output("alice", U64(900))>>,
       fee |-> U64(100), nonce |-> 1],
      \* inputs of 100 against outputs of 150
      [inputs |-> <<Ref("g", 1)>>, outputs |-> <<Output("alice", U64(150))>>,
       fee |-> U64(50), nonce |-> 1],
      \* an input that does not exist
      [inputs |-> <<Ref("x", 0)>>, outputs |-> <<Output("bob", U64(10))>>,
       fee |-> U64(50), nonce |-> 1],
      \* a fee below every configured floor
      [inputs |-> <<Ref("g", 1)>>, outputs |-> <<Output("alice", U64(100))>>,
       fee |-> U64(0), nonce |-> 1],
      \* a replay nonce of zero
      [inputs |-> <<Ref("g", 1)>>, outputs |-> <<Output("alice", U64(50))>>,
       fee |-> U64(50), nonce |-> 0],
      \* outputs whose sum exceeds the u64 range
      [inputs |-> <<Ref("g", 1)>>,
       outputs |-> <<Output("alice", U64_MAX), Output("alice", U64(51))>>,
       fee |-> U64(50), nonce |-> 1] }

SignatureKinds == {"signed", "forged", "unparsable"}

\* TransactionStory
Story(id, body, key, kind) ==
    LET unsigned ==
            [story_id |-> id,
             inputs_consumed |-> body.inputs,
             outputs_created |-> body.outputs,
             story_fee |-> body.fee,
             timestamp_of_telling |-> 0,
             transaction_nonce |-> body.nonce,
             digital_signature |-> <<>>,
             public_key_of_narrator |-> key]
    IN  [unsigned EXCEPT !.digital_signature =
            IF kind = "signed"
            THEN <<Sign(key, create_signable_message(unsigned))>>
            ELSE IF kind = "forged"
            THEN <<Sign(key, "")>>
            ELSE <<>>]

\* the bodies that pass every check of the validator on the funded store
\* (the last of them only where u64 addition wraps)
FundedBodies ==
    {b \in StoryBodies : b.nonce # 0 /\ b.fee # U64(0)
                          /\ b.inputs[1].previous_story_id = "g"
                          /\ b.outputs[1].value_locked # U64(150)}

ArrivingStories ==
    { Story(id, body, "alice", "signed") :
        id \in StoryIds \ {"t1"}, body \in FundedBodies }
    \cup { Story("t1", body, "alice", "signed") : body \in StoryBodies \ FundedBodies }
    \cup { Story("t1", CHOOSE b \in StoryBodies : b.fee = U64(50) /\ b \in FundedBodies
                                                    /\ Len(b.outputs) = 1,
                  "alice", "signed") }
    \cup { Story("t1", CHOOSE b \in StoryBodies : b.fee = U64(100), "alice", kind) :
             kind \in {"forged", "unparsable"} }
    \cup { Story("t1", CHOOSE b \in StoryBodies : b.fee = U64(100), "mallory",
                  "signed") }

-----------------------------------------------------------------------------
(* Blocks, hashing and the Merkle commitment *)

\* current_timestamp(): the wall clock, frozen at the epoch; no modelled
\* operation compares two timestamps
current_timestamp == 0

\* the 64-hex-digit literals of the source do not fit a u64; the low 64 bits
\* of 0x0FFF...F and of 0x00000FFF...F are both 0xFFFF_FFFF_FFFF_FFFF
GenesisDifficulty == U64_MAX

base_difficulty == U64_MAX

NonceStride == 1000000

NonceRange == 10000000

BatchCap == 1000

MempoolCap == 10000

calculate_current_difficulty(previous_block, config) ==
    IF previous_block.chapter_number % config.difficulty_adjustment_interval = 0
       /\ previous_block.chapter_number > 0
    THEN half(base_difficulty)
    ELSE previous_block.proof_of_storytelling.difficulty_target

calculate_block_hash(block, nonce) ==
    Sha256Hex(ToString(block.chapter_number)
              \o ToString(block.timestamp_of_creation)
              \o block.previous_chapter_essence
              \o block.merkle_tree_of_truth
              \o u64_to_string(block.proof_of_storytelling.difficulty_target)
              \o ToString(nonce))

hash_meets_difficulty(hash, difficulty_target) ==
    starts_with(hash, repeat("0", leading_zeros(difficulty_target) \div 4))

\* one level of the tree: hashes.chunks(2), an odd last hash paired with itself
RECURSIVE MerkleLevel(_)
MerkleLevel(hashes) ==
    IF hashes = <<>> THEN <<>>
    ELSE IF Len(hashes) = 1 THEN <<Sha256Hex(hashes[1] \o hashes[1])>>
    ELSE <<Sha256Hex(hashes[1] \o hashes[2])>>
         \o MerkleLevel(SubSeq(hashes, 3, Len(hashes)))

RECURSIVE MerkleFold(_)
MerkleFold(hashes) ==
    IF Len(hashes) > 1 THEN MerkleFold(MerkleLevel(hashes)) ELSE hashes

\* a root over the set of identifiers, whatever their order in the list
RECURSIVE IdsInFixedOrder(_)
IdsInFixedOrder(ids) ==
    IF ids = {} THEN <<>>
    ELSE LET id == CHOOSE x \in ids : TRUE
         IN  <<id>> \o IdsInFixedOrder(ids \ {id})

weave_merkle_tree_of_id_set(transactions) ==
    IF transactions = <<>> THEN repeat("0", 64)
    ELSE LET ids == IdsInFixedOrder({transactions[i].story_id :
                                        i \in 1..Len(transactions)})
         IN  MerkleFold([i \in 1..Len(ids) |-> Sha256Hex(ids[i])])[1]

\* a tree in which an odd last hash moves up a level as it is, not paired
\* with itself
RECURSIVE MerkleLevelCarryingOdd(_)
MerkleLevelCarryingOdd(hashes) ==
    IF hashes = <<>> THEN <<>>
    ELSE IF Len(hashes) = 1 THEN <<hashes[1]>>
    ELSE <<Sha256Hex(hashes[1] \o hashes[2])>>
         \o MerkleLevelCarryingOdd(SubSeq(hashes, 3, Len(hashes)))

RECURSIVE MerkleFoldCarryingOdd(_)
MerkleFoldCarryingOdd(hashes) ==
    IF Len(hashes) > 1 THEN MerkleFoldCarryingOdd(MerkleLevelCarryingOdd(hashes))
    ELSE hashes

weave_merkle_tree_carrying_odd(transactions) ==
    IF transactions = <<>> THEN repeat("0", 64)
    ELSE MerkleFoldCarryingOdd([i \in 1..Len(transactions) |->
                                   Sha256Hex(transactions[i].story_id)])[1]

weave_merkle_tree_of_truth(transactions) ==
    IF transactions = <<>> THEN repeat("0", 64)
    ELSE MerkleFold([i \in 1..Len(transactions) |->
                        Sha256Hex(transactions[i].story_id)])[1]

\* a genesis chapter whose previous essence is cut short of the sentinel's
\* 64 characters
GenesisChapterShortSentinel(timestamp) ==
    [chapter_number |-> 0,
     timestamp_of_creation |-> timestamp,
     previous_chapter_essence |-> repeat("0", 32),
     transaction_tales |-> <<>>,
     merkle_tree_of_truth |-> "genesis",
     chapter_essence |-> "genesis_hash",
     proof_of_storytelling |->
        [difficulty_target |-> GenesisDifficulty,
         nonce_of_discovery |-> 0,
         storyteller_reward |-> U64(0)]]

\* the genesis BlockChapter of craft_and_commit_genesis_chapter
GenesisChapter(timestamp) ==
    [chapter_number |-> 0,
     timestamp_of_creation |-> timestamp,
     previous_chapter_essence |-> repeat("0", 64),
     transaction_tales |-> <<>>,
     merkle_tree_of_truth |-> "genesis",
     chapter_essence |-> "genesis_hash",
     proof_of_storytelling |->
        [difficulty_target |-> GenesisDifficulty,
         nonce_of_discovery |-> 0,
         storyteller_reward |-> U64(0)]]

\* a candidate that names the essence its predecessor names instead of the
\* predecessor's own
CandidateChapterOnStaleEssence(previous_block, transactions, timestamp, config) ==
    [chapter_number |-> previous_block.chapter_number + 1,
     timestamp_of_creation |-> timestamp,
     previous_chapter_essence |-> previous_block.previous_chapter_essence,
     transaction_tales |-> transactions,
     merkle_tree_of_truth |-> weave_merkle_tree_of_truth(transactions),
     chapter_essence |-> "",
     proof_of_storytelling |->
        [difficulty_target |-> calculate_current_difficulty(previous_block, config),
         nonce_of_discovery |-> 0,
         storyteller_reward |-> config.base_mining_reward]]

\* the candidate BlockChapter assembled by mine_new_chapter, before mining
CandidateChapter(previous_block, transactions, timestamp, config) ==
    [chapter_number |-> previous_block.chapter_number + 1,
     timestamp_of_creation |-> timestamp,
     previous_chapter_essence |-> previous_block.chapter_essence,
     transaction_tales |-> transactions,
     merkle_tree_of_truth |-> weave_merkle_tree_of_truth(transactions),
     chapter_essence |-> "",
     proof_of_storytelling |->
        [difficulty_target |-> calculate_current_difficulty(previous_block, config),
         nonce_of_discovery |-> 0,
         storyteller_reward |-> config.base_mining_reward]]

\* the candidate of mine_new_chapter with the pair the search returned
MinedChapter(block, proof) ==
    [block EXCEPT !.chapter_essence = proof[1],
                  !.proof_of_storytelling.nonce_of_discovery = proof[2]]

-----------------------------------------------------------------------------
(* Proof of work, one search summarised *)

\* the decimal digits cycle with period ten and LeadingHexZeros looks at the
\* last digit only, so a worker's range holds a qualifying nonce exactly
\* when its first ten nonces do
SearchWindow == 10

WorkerStart(thread_id) == thread_id * NonceStride

\* the `for nonce in ..` loop of one worker from nonce on: <<>> when the
\* range ends without a send, else the (hash, nonce) pair sent
RECURSIVE WorkerLoop(_, _, _)
WorkerLoop(block, nonce, end) ==
    IF nonce >= end THEN <<>>
    ELSE LET hash == calculate_block_hash(block, nonce)
         IN  IF hash_meets_difficulty(
                    hash, block.proof_of_storytelling.difficulty_target)
             THEN <<hash, nonce>>
             ELSE WorkerLoop(block, nonce + 1, end)

\* a worker that reports its loop counter after the increment
WorkerFindsReportingNext(block, thread_id) ==
    LET start == WorkerStart(thread_id)
        tried == IF NonceRange < SearchWindow THEN NonceRange ELSE SearchWindow
        found == WorkerLoop(block, start, start + tried)
    IN  IF found = <<>> THEN <<>> ELSE <<found[1], found[2] + 1>>

WorkerFinds(block, thread_id) ==
    LET start == WorkerStart(thread_id)
        tried == IF NonceRange < SearchWindow THEN NonceRange ELSE SearchWindow
    IN  WorkerLoop(block, start, start + tried)

\* the nonces one worker hashes on a block: from its start_nonce up to the
\* nonce it sends, or to the end of its range when it sends nothing
\* (from inclusive, to exclusive)
HashedRange(block, thread_id) ==
    LET found == WorkerFinds(block, thread_id)
    IN  [from |-> WorkerStart(thread_id),
         to |-> IF found = <<>> THEN WorkerStart(thread_id) + NonceRange
                ELSE found[2] + 1]

\* the (hash, nonce) pairs perform_proof_of_work can return: the report of
\* whichever worker sends first
ProofsOfWork(block) ==
    LET found == [t \in 0..(NumThreads - 1) |-> WorkerFinds(block, t)]
    IN  {found[t] : t \in {u \in 0..(NumThreads - 1) : found[u] # <<>>}}

-----------------------------------------------------------------------------
(* UTXO ledger *)

\* UTXOLedger::find_unspent_output: <<>> is None
find_unspent_output(cache, db, key) ==
    IF key \in DOMAIN cache THEN <<cache[key]>>
    ELSE IF key \in DOMAIN db THEN <<db[key]>>
    ELSE <<>>

\* verify_spending_authorization always returns Ok(())
verify_spending_authorization(utxo, public_key) == "Ok"

RECURSIVE InputValue(_, _, _, _, _)
InputValue(inputs, total_value, cache, db, public_key) ==
    IF inputs = <<>> THEN [err |-> "Ok", val |-> total_value]
    ELSE LET utxo == find_unspent_output(cache, db, utxo_key(Head(inputs)))
         IN  IF utxo = <<>> THEN [err |-> "UTXONotFound", val |-> total_value]
             ELSE IF verify_spending_authorization(utxo[1], public_key) # "Ok"
             THEN [err |-> "Unauthorized", val |-> total_value]
             ELSE IF checked_add(total_value, utxo[1].value_locked) = <<>>
             THEN [err |-> "ValueOverflow", val |-> total_value]
             ELSE InputValue(Tail(inputs),
                             checked_add(total_value, utxo[1].value_locked)[1],
                             cache, db, public_key)

verify_and_calculate_input_value(story, cache, db) ==
    InputValue(story.inputs_consumed, U64(0), cache, db,
               story.public_key_of_narrator)

-----------------------------------------------------------------------------
(* Transaction validation *)

\* Iterator::sum::<u64>() over the outputs' values, from the left
RECURSIVE SumOutputs(_, _, _)
SumOutputs(outputs, acc, overflow_checks) ==
    IF outputs = <<>> THEN [ok |-> TRUE, val |-> acc]
    ELSE LET next == plain_add(acc, Head(outputs).value_locked, overflow_checks)
         IN  IF ~next.ok THEN next
             ELSE SumOutputs(Tail(outputs), next.val, overflow_checks)

verify_transaction_nonce(story) ==
    IF story.transaction_nonce = 0 THEN "InvalidNonce" ELSE "Ok"

\* a validation that has no fee floor
AuthenticityWithoutFeeFloor(story, config, cache, db, overflow_checks) ==
    LET verdict == signature_tells_the_truth(story)
        inputs == verify_and_calculate_input_value(story, cache, db)
        total_output_value == SumOutputs(story.outputs_created, U64(0),
                                         overflow_checks)
        needed == plain_add(total_output_value.val, story.story_fee,
                            overflow_checks)
    IN  IF verdict \in {"InvalidPublicKey", "InvalidSignature"} THEN verdict
        ELSE IF verdict = "false" THEN "StoryBearsFalseWitness"
        ELSE IF inputs.err # "Ok" THEN inputs.err
        ELSE IF ~total_output_value.ok \/ ~needed.ok THEN "Panic"
        ELSE IF u64_lt(inputs.val, needed.val) THEN "NarratorLacksResources"
        ELSE verify_transaction_nonce(story)

\* the result of story_proves_its_authenticity; "Panic" is an arithmetic
\* overflow in a build with overflow checks
story_proves_its_authenticity(story, config, cache, db, overflow_checks) ==
    LET verdict == signature_tells_the_truth(story)
        inputs == verify_and_calculate_input_value(story, cache, db)
        total_output_value == SumOutputs(story.outputs_created, U64(0),
                                         overflow_checks)
        needed == plain_add(total_output_value.val, story.story_fee,
                            overflow_checks)
    IN  IF verdict \in {"InvalidPublicKey", "InvalidSignature"} THEN verdict
        ELSE IF verdict = "false" THEN "StoryBearsFalseWitness"
        ELSE IF inputs.err # "Ok" THEN inputs.err
        ELSE IF ~total_output_value.ok \/ ~needed.ok THEN "Panic"
        ELSE IF u64_lt(inputs.val, needed.val) THEN "NarratorLacksResources"
        ELSE IF u64_lt(story.story_fee, config.min_transaction_fee)
        THEN "InsufficientFee"
        ELSE verify_transaction_nonce(story)

\* ChainRepository::transaction_exists
transaction_exists(txs, tx_id) == tx_id \in DOMAIN txs

story_proves_its_uniqueness(story, txs, pool) ==
    IF transaction_exists(txs, story.story_id) THEN "DuplicateStory"
    ELSE IF \E i \in 1..Len(pool) : pool[i].story_id = story.story_id
    THEN "DuplicateStory"
    ELSE "Ok"

\* the `?` chain of transaction_story_arrives up to the mempool push
Admission(story, config, cache, db, overflow_checks, txs, pool) ==
    LET authentic == story_proves_its_authenticity(story, config, cache, db,
                                                   overflow_checks)
    IN  IF authentic # "Ok" THEN authentic
        ELSE story_proves_its_uniqueness(story, txs, pool)

\* Vec::sort_by(|a, b| b.story_fee.cmp(&a.story_fee)): stable, highest fee
\* first: the stories of the highest fee in the order they stand in the pool,
\* then those of the next fee, and so on
RECURSIVE ByFeeDescending(_, _)
ByFeeDescending(pool, fees) ==
    IF fees = {} THEN <<>>
    ELSE LET top == CHOOSE fee \in fees : \A other \in fees : ~u64_lt(fee, other)
             HasTopFee(story) == story.story_fee = top
         IN  SelectSeq(pool, HasTopFee) \o ByFeeDescending(pool, fees \ {top})

SortByFee(pool) ==
    ByFeeDescending(pool, {pool[i].story_fee : i \in 1..Len(pool)})

Min(a, b) == IF a < b THEN a ELSE b

\* a drain of the first BatchCap stories of the pool as it stands, with no
\* sort before it
DrainInArrivalOrder(pool) ==
    LET count == Min(BatchCap, Len(pool))
    IN  [selected |-> SubSeq(pool, 1, count),
         pool |-> SubSeq(pool, count + 1, Len(pool))]

\* the critical section of begin_the_eternal_mining_quest on a non-empty
\* pool: pool.sort_by(..), then pool.drain(..min(1000, pool.len()))
select_transactions(pool) ==
    LET sorted == SortByFee(pool)
        count == Min(BatchCap, Len(sorted))
    IN  [selected |-> SubSeq(sorted, 1, count),
         pool |-> SubSeq(sorted, count + 1, Len(sorted))]

\* the mempool after the push and the size cap of transaction_story_arrives
PushToMempool(pool, story) ==
    LET pushed == Append(pool, story)
    IN  IF Len(pushed) > MempoolCap
        THEN SubSeq(SortByFee(pushed), 1, MempoolCap)
        ELSE pushed

-----------------------------------------------------------------------------
(* Chain repository *)

Put(map, key, value) ==
    [k \in DOMAIN map \cup {key} |-> IF k = key THEN value ELSE map[k]]

RECURSIVE PutStories(_, _)
PutStories(txs, stories) ==
    IF stories = <<>> THEN txs
    ELSE PutStories(Put(txs, Head(stories).story_id, Head(stories)),
                    Tail(stories))

\* where a store operation of add_block_chapter may fail: nowhere, at the
\* block insert, at the insert of the n-th transaction, or at the flush
Faults(block) ==
    {<<"none", 0>>, <<"block_insert", 0>>, <<"flush", 0>>}
    \cup {<<"tx_insert", n>> : n \in 1..Len(block.transaction_tales)}

\* ChainRepository::add_block_chapter on the repository
\* [block_db, tx_db, chain_tip, block_index]; block_db is keyed by the
\* chapter number its key "block_{:010}" encodes
add_block_chapter(repo, block, fault) ==
    LET stored == [repo EXCEPT !.block_db =
                        Put(repo.block_db, block.chapter_number, block)]
        upto == IF fault[1] = "tx_insert" THEN fault[2] - 1
                ELSE Len(block.transaction_tales)
        filed == [stored EXCEPT !.tx_db =
                        PutStories(stored.tx_db,
                                   SubSeq(block.transaction_tales, 1, upto))]
        tipped == [filed EXCEPT
                        !.chain_tip = <<block>>,
                        !.block_index = filed.block_index \cup
                            {<<block.chapter_essence, block.chapter_number>>}]
    IN  IF fault[1] = "block_insert"
        THEN [repo |-> repo, result |-> "DatabaseError"]
        ELSE IF fault[1] = "tx_insert"
        THEN [repo |-> filed, result |-> "DatabaseError"]
        ELSE IF fault[1] = "flush"
        THEN [repo |-> tipped, result |-> "DatabaseError"]
        ELSE [repo |-> tipped, result |-> "Ok"]

\* a start-up that takes every block store for an empty one
chain_is_always_empty(blocks) == TRUE

\* ChainRepository::chain_is_empty
chain_is_empty(blocks) == DOMAIN blocks = {}

Max(S) == CHOOSE m \in S : \A n \in S : n <= m

Lowest(S) == CHOOSE m \in S : \A n \in S : m <= n

\* ChainRepository::get_chain_tip: <<>> is None
get_chain_tip(tip, blocks) ==
    IF tip = <<>> /\ DOMAIN blocks # {} THEN <<blocks[Max(DOMAIN blocks)]>>
    ELSE tip

RECURSIVE WalkChapters(_, _, _)
WalkChapters(blocks, keys, previous_hash) ==
    IF keys = {} THEN TRUE
    ELSE LET block == blocks[Lowest(keys)]
         IN  IF block.chapter_number > 0
                /\ block.previous_chapter_essence # previous_hash
             THEN FALSE
             ELSE WalkChapters(blocks, keys \ {Lowest(keys)},
                               block.chapter_essence)

\* ChainRepository::verify_chain_integrity
verify_chain_integrity(blocks) ==
    WalkChapters(blocks, DOMAIN blocks, repeat("0", 64))

Repository ==
    [block_db |-> block_db, tx_db |-> tx_db, chain_tip |-> chain_tip,
     block_index |-> block_index]

-----------------------------------------------------------------------------
(* The state machine *)

Event(op, result) == [op |-> op, result |-> result]

\* what the caller of transaction_story_arrives sees of a Result
Outcome(result) == IF result = "Ok" THEN "Ok" ELSE "Rejected"

\* a pool that takes the story in before its validation is consulted
PoolAdmittingUnvalidated(pool, story, result) == PushToMempool(pool, story)

\* the mempool after transaction_story_arrives returned result
AdmittedPool(pool, story, result) ==
    IF result = "Ok" THEN PushToMempool(pool, story) ELSE pool

\* the broadcasts after transaction_story_arrives returned result
AdmittedBroadcasts(sent, story, result) ==
    IF result = "Ok" THEN sent \cup {story.story_id} ELSE sent

\* the node before new_chronicle_begins; the UTXO store is whatever the data
\* directory holds, the build is whichever profile compiled the node
LedgerInit ==
    /\ phase = "Idle"
    /\ build \in [overflow_checks : BOOLEAN]
    /\ configuration = DefaultConfiguration
    /\ mempool = <<>>
    /\ block_db = EmptyMap
    /\ tx_db = EmptyMap
    /\ chain_tip = <<>>
    /\ block_index = {}
    /\ utxo_db \in InitialStores
    /\ unspent_outputs = EmptyMap
    /\ spent_outputs = {}
    /\ miner_pc = "off"
    /\ selected = <<>>
    /\ broadcasts = {}
    /\ event = Event("none", "Ok")

\* no proof-of-work search is being followed step by step
PowIdle ==
    /\ pow_block = <<>>
    /\ workers = <<>>
    /\ channel = <<>>
    /\ pow_pc = "idle"
    /\ pow_out = <<>>

\* neither of the other two programs has been started
ToolsIdle ==
    /\ wallet_guardian = <<>>
    /\ orchestrator = <<>>
    /\ saga = <<>>

Init == LedgerInit /\ PowIdle /\ ToolsIdle

\* BlockchainChronicler::new_chronicle_begins
NewChronicleBegins ==
    /\ phase = "Idle"
    /\ \E config \in Configurations :
       \E fault \in Faults(GenesisChapter(current_timestamp)) :
          LET made == IF chain_is_empty(block_db)
                      THEN add_block_chapter(Repository,
                                             GenesisChapter(current_timestamp),
                                             fault)
                      ELSE [repo |-> Repository, result |-> "Ok"]
          IN  /\ configuration' = config
              /\ block_db' = made.repo.block_db
              /\ tx_db' = made.repo.tx_db
              /\ chain_tip' = made.repo.chain_tip
              /\ block_index' = made.repo.block_index
              /\ phase' = IF made.result = "Ok" THEN "Running" ELSE "Failed"
              /\ miner_pc' = IF made.result = "Ok" THEN "sleep" ELSE "off"
              /\ event' = Event("new_chronicle_begins", made.result)
    /\ UNCHANGED tool_vars
    /\ UNCHANGED <<build, mempool, utxo_db, unspent_outputs, spent_outputs,
                   selected, broadcasts, pow_vars>>

\* BlockchainChronicler::transaction_story_arrives; `&mut self` admits one
\* call at a time
StoryArrives(story) ==
    LET result == Admission(story, configuration, unspent_outputs,
                            utxo_db, build.overflow_checks, tx_db, mempool)
    IN  /\ mempool' = AdmittedPool(mempool, story, result)
        /\ broadcasts' = AdmittedBroadcasts(broadcasts, story, result)
        /\ event' = Event("transaction_story_arrives", Outcome(result))

TransactionStoryArrives ==
    /\ phase = "Running"
    /\ \E story \in ArrivingStories : StoryArrives(story)
    /\ UNCHANGED tool_vars
    /\ UNCHANGED <<phase, build, configuration, block_db, tx_db, chain_tip,
                   block_index, utxo_db, unspent_outputs, spent_outputs,
                   miner_pc, selected, pow_vars>>

\* one period of the mining task that finds the pool empty
MinerFindsPoolEmpty ==
    /\ miner_pc = "sleep"
    /\ mempool = <<>>
    /\ event' = Event("mining_period", "Empty")
    /\ UNCHANGED tool_vars
    /\ UNCHANGED <<phase, build, configuration, mempool, block_db, tx_db,
                   chain_tip, block_index, utxo_db, unspent_outputs,
                   spent_outputs, miner_pc, selected, broadcasts, pow_vars>>

\* the critical section of the mining task: sort the pool and drain a batch
MinerSelectsBatch ==
    /\ miner_pc = "sleep"
    /\ mempool # <<>>
    /\ \A n \in DOMAIN block_db : n < MaxChapters
    /\ LET drained == select_transactions(mempool)
       IN  /\ selected' = drained.selected
           /\ mempool' = drained.pool
    /\ miner_pc' = "mine"
    /\ event' = Event("mining_period", "Selected")
    /\ UNCHANGED tool_vars
    /\ UNCHANGED <<phase, build, configuration, block_db, tx_db, chain_tip,
                   block_index, utxo_db, unspent_outputs, spent_outputs,
                   broadcasts, pow_vars>>

\* BlockchainChronicler::mine_new_chapter on the drained batch
MinerMinesChapter ==
    /\ miner_pc = "mine"
    /\ LET previous_block == get_chain_tip(chain_tip, block_db)
       IN  IF previous_block = <<>>
           THEN /\ event' = Event("mine_new_chapter", "ChainCorrupted")
                /\ UNCHANGED <<block_db, tx_db, chain_tip, block_index>>
           ELSE LET block == CandidateChapter(previous_block[1], selected,
                                                current_timestamp,
                                                configuration)
                  IN  \E proof \in ProofsOfWork(block) :
                        LET mined == MinedChapter(block, proof)
                        IN  \E fault \in Faults(mined) :
                              LET made == add_block_chapter(Repository, mined,
                                                            fault)
                              IN  /\ block_db' = made.repo.block_db
                                  /\ tx_db' = made.repo.tx_db
                                  /\ chain_tip' = made.repo.chain_tip
                                  /\ block_index' = made.repo.block_index
                                  /\ event' = Event("mine_new_chapter",
                                                    made.result)
    /\ selected' = <<>>
    /\ miner_pc' = "sleep"
    /\ UNCHANGED tool_vars
    /\ UNCHANGED <<phase, build, configuration, mempool, utxo_db,
                   unspent_outputs, spent_outputs, broadcasts, pow_vars>>

Next ==
    \/ NewChronicleBegins
    \/ TransactionStoryArrives
    \/ MinerFindsPoolEmpty
    \/ MinerSelectsBatch
    \/ MinerMinesChapter

Spec == Init /\ [][Next]_vars

-----------------------------------------------------------------------------
(* perform_proof_of_work, step by step *)

\* difficulty targets asking for 0, 1, 2, 3 and 15 leading zero characters
PowTargets ==
    { U64_MAX,
      <<4095, 65535, 65535, 65535>>,
      <<255, 65535, 65535, 65535>>,
      <<15, 65535, 65535, 65535>>,
      U64(1) }

\* the chain tips a search starts from: a stored chapter of each target and
\* height
PowTips ==
    { [GenesisChapter(current_timestamp) EXCEPT
          !.chapter_number = number,
          !.proof_of_storytelling.difficulty_target = target] :
      target \in PowTargets, number \in 0..MaxChapters }

\* a batch the mining task drained: one story
PowBatch ==
    <<Story("t2", CHOOSE b \in StoryBodies : b.fee = U64(100), "alice", "signed")>>

\* the batches the mining task may have drained for the search: stories of
\* equal fee in their order of arrival
PowBatches ==
    LET ids == <<"t2", "t1", "t3", "t4", "t5", "t6">>
        story(i) == Story(ids[i], CHOOSE b \in StoryBodies : b.fee = U64(100),
                          "alice", "signed")
    IN  { [i \in 1..n |-> story(i)] : n \in 1..MaxBatch }

ThreadIds == 0..(NumThreads - 1)

\* the Senders alive: `tx`, which perform_proof_of_work holds until it
\* returns, and the tx_clone of every task that has not finished
LiveSenders ==
    (IF pow_pc \in {"start", "recv"} THEN 1 ELSE 0)
    + Cardinality({t \in ThreadIds : workers # <<>> /\ workers[t + 1] = "spawned"})

\* mine_new_chapter has assembled its candidate on the tip and calls
\* perform_proof_of_work
PowInit ==
    /\ phase = "Running"
    /\ build = [overflow_checks |-> TRUE]
    /\ configuration \in Configurations
    /\ mempool = <<>>
    /\ selected \in PowBatches
    /\ \E tip \in PowTips :
          /\ block_db = Put(EmptyMap, tip.chapter_number, tip)
          /\ chain_tip = <<tip>>
          /\ block_index = {<<tip.chapter_essence, tip.chapter_number>>}
          /\ pow_block = CandidateChapter(tip, selected, current_timestamp,
                                          configuration)
    /\ tx_db = EmptyMap
    /\ utxo_db = FundedStore
    /\ unspent_outputs = EmptyMap
    /\ spent_outputs = {}
    /\ miner_pc = "mine"
    /\ broadcasts = {selected[i].story_id : i \in 1..Len(selected)}
    /\ event = Event("mining_period", "Selected")
    /\ workers = <<>>
    /\ channel = <<>>
    /\ pow_pc = "start"
    /\ pow_out = <<>>
    /\ ToolsIdle

\* the `for thread_id in 0..num_threads` loop: one task spawned per thread
PowSpawns ==
    /\ pow_pc = "start"
    /\ workers' = [t \in 1..NumThreads |-> "spawned"]
    /\ pow_pc' = "recv"
    /\ UNCHANGED tool_vars
    /\ UNCHANGED <<ledger_vars, pow_block, channel, pow_out>>

\* one spawned task runs its loop, which holds no await, to its end: it
\* sends the first qualifying (hash, nonce) of its range or sends nothing;
\* either way its tx_clone is dropped
WorkerRuns(thread_id) ==
    /\ workers # <<>>
    /\ workers[thread_id + 1] = "spawned"
    /\ channel' = IF WorkerFinds(pow_block, thread_id) # <<>>
                  THEN Append(channel, WorkerFinds(pow_block, thread_id))
                  ELSE channel
    /\ workers' = [workers EXCEPT ![thread_id + 1] =
                      IF WorkerFinds(pow_block, thread_id) # <<>>
                      THEN "sent" ELSE "exhausted"]
    /\ UNCHANGED tool_vars
    /\ UNCHANGED <<ledger_vars, pow_block, pow_pc, pow_out>>

\* handle.abort() reaches a task that was never polled
WorkerAborted(thread_id) ==
    /\ pow_pc = "returned"
    /\ workers[thread_id + 1] = "spawned"
    /\ workers' = [workers EXCEPT ![thread_id + 1] = "aborted"]
    /\ UNCHANGED tool_vars
    /\ UNCHANGED <<ledger_vars, pow_block, channel, pow_pc, pow_out>>

\* rx.recv().await completes: with a message when one is queued, with None
\* when the queue is empty and no Sender is alive
PowReceives ==
    /\ pow_pc = "recv"
    /\ channel # <<>> \/ LiveSenders = 0
    /\ IF channel # <<>>
       THEN /\ pow_out' = <<"Ok", Head(channel)>>
            /\ channel' = Tail(channel)
       ELSE /\ pow_out' = <<"Err", "ProofOfWorkFailed">>
            /\ channel' = channel
    /\ pow_pc' = "returned"
    /\ UNCHANGED tool_vars
    /\ UNCHANGED <<ledger_vars, pow_block, workers>>

\* the end of mine_new_chapter: `?` on the search's result, then the
\* chapter with the returned hash and nonce goes to add_block_chapter
PowCommits ==
    /\ pow_pc = "returned"
    /\ miner_pc = "mine"
    /\ IF pow_out[1] = "Ok"
       THEN \E fault \in Faults(pow_block) :
              LET made == add_block_chapter(
                              Repository, MinedChapter(pow_block, pow_out[2]),
                              fault)
              IN  /\ block_db' = made.repo.block_db
                  /\ tx_db' = made.repo.tx_db
                  /\ chain_tip' = made.repo.chain_tip
                  /\ block_index' = made.repo.block_index
                  /\ event' = Event("mine_new_chapter", made.result)
       ELSE /\ event' = Event("mine_new_chapter", pow_out[2])
            /\ UNCHANGED <<block_db, tx_db, chain_tip, block_index>>
    /\ selected' = <<>>
    /\ miner_pc' = "sleep"
    /\ UNCHANGED tool_vars
    /\ UNCHANGED <<phase, build, configuration, mempool, utxo_db,
                   unspent_outputs, spent_outputs, broadcasts, pow_vars>>

PowNext ==
    \/ PowSpawns
    \/ \E thread_id \in ThreadIds : WorkerRuns(thread_id)
    \/ \E thread_id \in ThreadIds : WorkerAborted(thread_id)
    \/ PowReceives
    \/ PowCommits

PowSpec == PowInit /\ [][PowNext]_vars

\* the runtime keeps polling spawned tasks and the pending recv
PowFairSpec == PowSpec /\ WF_vars(PowNext)

-----------------------------------------------------------------------------
(* ChainRepository, called with any chapter *)

\* ChainRepository::new on an empty data directory
RepoInit ==
    /\ phase = "Idle"
    /\ build = [overflow_checks |-> TRUE]
    /\ configuration = DefaultConfiguration
    /\ mempool = <<>>
    /\ block_db = EmptyMap
    /\ tx_db = EmptyMap
    /\ chain_tip = <<>>
    /\ block_index = {}
    /\ utxo_db = EmptyMap
    /\ unspent_outputs = EmptyMap
    /\ spent_outputs = {}
    /\ miner_pc = "off"
    /\ selected = <<>>
    /\ broadcasts = {}
    /\ event = Event("none", "Ok")
    /\ PowIdle
    /\ ToolsIdle

\* a mined chapter on top of a stored one, as mine_new_chapter makes it
Successor(previous_block, transactions) ==
    LET block == CandidateChapter(previous_block, transactions,
                                  current_timestamp, configuration)
    IN  MinedChapter(block, CHOOSE proof \in ProofsOfWork(block) : TRUE)

\* the chapters a caller may hand to add_block_chapter: the genesis chapter,
\* a successor of any stored chapter, and such a successor with a number one
\* too high or with a previous essence no chapter has
OfferedChapters ==
    {GenesisChapter(current_timestamp)}
    \cup UNION { LET next == Successor(block_db[n], transactions)
                 IN  { next,
                       [next EXCEPT !.chapter_number = @ + 1],
                       [next EXCEPT !.previous_chapter_essence = "unknown"] } :
                 n \in DOMAIN block_db, transactions \in {PowBatch} }

\* ChainRepository::add_block_chapter called with an offered chapter
RepoAppends ==
    /\ \E block \in OfferedChapters :
          /\ block.chapter_number <= MaxChapters
          /\ \E fault \in Faults(block) :
                LET made == add_block_chapter(Repository, block, fault)
                IN  /\ block_db' = made.repo.block_db
                    /\ tx_db' = made.repo.tx_db
                    /\ chain_tip' = made.repo.chain_tip
                    /\ block_index' = made.repo.block_index
                    /\ event' = Event("add_block_chapter", made.result)
    /\ UNCHANGED tool_vars
    /\ UNCHANGED <<phase, build, configuration, mempool, utxo_db,
                   unspent_outputs, spent_outputs, miner_pc, selected,
                   broadcasts, pow_vars>>

\* a verification that forgets the cached tip, leaving it to be reloaded
VerifiedRepositoryWithoutTip(repo) == [repo EXCEPT !.chain_tip = <<>>]

\* the repository after verify_chain_integrity, which takes &self and only
\* reads
VerifiedRepository(repo) == repo

\* ChainRepository::verify_chain_integrity
RepoVerifies ==
    /\ LET after == VerifiedRepository(Repository)
       IN  /\ block_db' = after.block_db
           /\ tx_db' = after.tx_db
           /\ chain_tip' = after.chain_tip
           /\ block_index' = after.block_index
    /\ event' = Event("verify_chain_integrity",
                      IF verify_chain_integrity(block_db) THEN "true" ELSE "false")
    /\ UNCHANGED tool_vars
    /\ UNCHANGED <<phase, build, configuration, mempool, utxo_db,
                   unspent_outputs, spent_outputs, miner_pc, selected,
                   broadcasts, pow_vars>>

RepoNext ==
    \/ RepoAppends
    \/ RepoVerifies

RepoSpec == RepoInit /\ [][RepoNext]_vars

-----------------------------------------------------------------------------
(* The mining period on pools of every size around the batch cap *)

\* the fees of the pooled stories, all at or above the low fee floor
PoolFees == {50, 100, 1000}

\* the i-th story of a pool: alice spends her output g:0 under a fresh
\* identifier; the validator admits any number of these (it does not look
\* at the pool's inputs)
PoolStory(i, fee) ==
    Story("p" \o ToString(i),
          [inputs |-> <<Ref("g", 0)>>,
           outputs |-> <<Output("bob", U64(0))>>,
           fee |-> U64(fee), nonce |-> 1],
          "alice", "signed")

\* pools of up to three stories with every arrangement of fees
SmallPools ==
    UNION { { [i \in 1..n |-> PoolStory(i, fees[i])] :
                fees \in [1..n -> PoolFees] } : n \in 0..3 }

\* pools one short of the batch cap, at it, and one and two above it; the
\* fees either rise with the order of arrival or are mixed
LargePools ==
    { [i \in 1..n |->
          PoolStory(i, 50 + (IF rising THEN i \div 20 ELSE (i * 3) % 7))] :
        n \in (BatchCap - 1)..(BatchCap + 2), rising \in BOOLEAN }

QuestPools == SmallPools \cup LargePools

\* the node runs on a chain that holds its genesis chapter; the mining task
\* sleeps before a period, the pool holds what was admitted so far
QuestInit ==
    /\ phase = "Running"
    /\ build \in [overflow_checks : BOOLEAN]
    /\ configuration = LowFeeConfiguration
    /\ mempool \in QuestPools
    /\ block_db = Put(EmptyMap, 0, GenesisChapter(current_timestamp))
    /\ tx_db = EmptyMap
    /\ chain_tip = <<GenesisChapter(current_timestamp)>>
    /\ block_index = {<<"genesis_hash", 0>>}
    /\ utxo_db = FundedStore
    /\ unspent_outputs = EmptyMap
    /\ spent_outputs = {}
    /\ miner_pc = "sleep"
    /\ selected = <<>>
    /\ broadcasts = {mempool[i].story_id : i \in 1..Len(mempool)}
    /\ event = Event("none", "Ok")
    /\ PowIdle
    /\ ToolsIdle

\* the period of the mining task up to its call of mine_new_chapter
QuestNext ==
    \/ MinerFindsPoolEmpty
    \/ MinerSelectsBatch

QuestSpec == QuestInit /\ [][QuestNext]_vars

-----------------------------------------------------------------------------
(* mine_new_chapter, called with any list of stories *)

MaxLeaves == 5

LeafIds == {"a", "b", "c"}

\* the lists of stories handed to mine_new_chapter: every list of up to
\* MaxLeaves stories over the identifiers, the empty list included
LeafLists ==
    UNION { [1..n -> { Story(id, CHOOSE b \in StoryBodies : b.fee = U64(100),
                             "alice", "signed") : id \in LeafIds }] :
            n \in 0..MaxLeaves }

\* mine_new_chapter is entered with its list of stories on a chain that
\* holds the genesis chapter
MerkleInit ==
    /\ phase = "Running"
    /\ build = [overflow_checks |-> TRUE]
    /\ configuration = DefaultConfiguration
    /\ mempool = <<>>
    /\ selected \in LeafLists
    /\ block_db = Put(EmptyMap, 0, GenesisChapter(current_timestamp))
    /\ tx_db = EmptyMap
    /\ chain_tip = <<GenesisChapter(current_timestamp)>>
    /\ block_index = {<<"genesis_hash", 0>>}
    /\ utxo_db = FundedStore
    /\ unspent_outputs = EmptyMap
    /\ spent_outputs = {}
    /\ miner_pc = "mine"
    /\ broadcasts = {selected[i].story_id : i \in 1..Len(selected)}
    /\ event = Event("mining_period", "Selected")
    /\ PowIdle
    /\ ToolsIdle

\* mine_new_chapter up to its call of perform_proof_of_work: the candidate
\* on the tip, with the Merkle root of its stories
MineNewChapterAssembles ==
    /\ miner_pc = "mine"
    /\ pow_pc = "idle"
    /\ LET previous_block == get_chain_tip(chain_tip, block_db)
       IN  /\ previous_block # <<>>
           /\ pow_block' = CandidateChapter(previous_block[1], selected,
                                            current_timestamp, configuration)
    /\ pow_pc' = "start"
    /\ UNCHANGED tool_vars
    /\ UNCHANGED <<ledger_vars, workers, channel, pow_out>>

MerkleNext == MineNewChapterAssembles

MerkleSpec == MerkleInit /\ [][MerkleNext]_vars

-----------------------------------------------------------------------------
(* The node stopped and started again on the same data directory *)

\* the process ends: the three sled stores keep what was written to them;
\* the pool, the cached tip, the hash index, the ledger's caches and the
\* mining task are gone, and the next new_chronicle_begins builds them anew
ProcessExits ==
    /\ phase \in {"Running", "Failed"}
    /\ phase' = "Idle"
    /\ mempool' = <<>>
    /\ chain_tip' = <<>>
    /\ block_index' = {}
    /\ unspent_outputs' = EmptyMap
    /\ spent_outputs' = {}
    /\ miner_pc' = "off"
    /\ selected' = <<>>
    /\ event' = Event("exit", "Ok")
    /\ UNCHANGED tool_vars
    /\ UNCHANGED <<build, configuration, block_db, tx_db, utxo_db, broadcasts,
                   pow_vars>>

\* the stories that reach a node of this specification
RestartStories ==
    { Story(id, CHOOSE b \in FundedBodies : b.fee = fee /\ Len(b.outputs) = 1,
            "alice", "signed") :
        id \in StoryIds, fee \in {U64(100)} }

RestartStoryArrives ==
    /\ phase = "Running"
    /\ \E story \in RestartStories : StoryArrives(story)
    /\ UNCHANGED tool_vars
    /\ UNCHANGED <<phase, build, configuration, block_db, tx_db, chain_tip,
                   block_index, utxo_db, unspent_outputs, spent_outputs,
                   miner_pc, selected, pow_vars>>

RestartNext ==
    \/ NewChronicleBegins
    \/ RestartStoryArrives
    \/ MinerFindsPoolEmpty
    \/ MinerSelectsBatch
    \/ MinerMinesChapter
    \/ ProcessExits

RestartSpec == Init /\ [][RestartNext]_vars

-----------------------------------------------------------------------------
(* transaction_story_arrives on pools of every size around the size cap *)

\* pools one short of the size cap and at it: every story at the fee of
\* 100, or the fees mixed
FullPools ==
    { [i \in 1..n |->
          PoolStory(i, IF mixed
                       THEN (IF i % 3 = 0 THEN 50 ELSE IF i % 3 = 1 THEN 100
                             ELSE 1000)
                       ELSE 100)] :
        n \in (MempoolCap - 1)..MempoolCap, mixed \in BOOLEAN }

\* the stories that arrive: alice's spends of g:0 at the fees of 50 and 100
CapStories ==
    { Story(id, body, "alice", "signed") :
        id \in StoryIds,
        body \in {b \in FundedBodies : Len(b.outputs) = 1} }

\* a running node whose pool holds what was admitted so far
CapInit ==
    /\ phase = "Running"
    /\ build = [overflow_checks |-> TRUE]
    /\ configuration = LowFeeConfiguration
    /\ mempool \in SmallPools \cup FullPools
    /\ block_db = Put(EmptyMap, 0, GenesisChapter(current_timestamp))
    /\ tx_db = EmptyMap
    /\ chain_tip = <<GenesisChapter(current_timestamp)>>
    /\ block_index = {<<"genesis_hash", 0>>}
    /\ utxo_db = FundedStore
    /\ unspent_outputs = EmptyMap
    /\ spent_outputs = {}
    /\ miner_pc = "sleep"
    /\ selected = <<>>
    /\ broadcasts = {mempool[i].story_id : i \in 1..Len(mempool)}
    /\ event = Event("none", "Ok")
    /\ PowIdle
    /\ ToolsIdle

CapStoryArrives ==
    /\ phase = "Running"
    /\ \E story \in CapStories : StoryArrives(story)
    /\ UNCHANGED tool_vars
    /\ UNCHANGED <<phase, build, configuration, block_db, tx_db, chain_tip,
                   block_index, utxo_db, unspent_outputs, spent_outputs,
                   miner_pc, selected, pow_vars>>

CapNext == CapStoryArrives

CapSpec == CapInit /\ [][CapNext]_vars

-----------------------------------------------------------------------------
(* create_transaction, called with any request *)

\* the references whose keys the modelled stores hold, in the order in which
\* sled iterates their keys (bytewise); a key parses back into its reference
StoreRefs == <<Ref("g", 0), Ref("g", 1), Ref("g", 2), Ref("g", 3)>>

\* UTXOLedger::find_utxos_for_address: the (reference, output) pairs of the
\* store that pay the address and are not in spent_outputs, in store order
RECURSIVE UtxosIn(_, _, _, _)
UtxosIn(refs, db, spent, address) ==
    IF refs = <<>> THEN <<>>
    ELSE LET key == utxo_key(Head(refs))
             rest == UtxosIn(Tail(refs), db, spent, address)
         IN  IF /\ key \in DOMAIN db
                /\ db[key].recipient_address = address
                /\ key \notin spent
             THEN <<[ref |-> Head(refs), utxo |-> db[key]]>> \o rest
             ELSE rest

find_utxos_for_address(db, spent, address) ==
    UtxosIn(StoreRefs, db, spent, address)

\* the selection loop of create_transaction: takes outputs in order until
\* total_input >= amount + fee, both sums in unchecked u64 arithmetic
RECURSIVE SelectUtxos(_, _, _, _, _, _)
SelectUtxos(utxos, selected_utxos, total_input, amount, fee, overflow_checks) ==
    IF utxos = <<>>
    THEN [ok |-> TRUE, selected_utxos |-> selected_utxos,
          total_input |-> total_input]
    ELSE LET grown == plain_add(total_input, Head(utxos).utxo.value_locked,
                                overflow_checks)
             needed == plain_add(amount, fee, overflow_checks)
             taken == Append(selected_utxos, Head(utxos))
         IN  IF ~grown.ok \/ ~needed.ok
             THEN [ok |-> FALSE, selected_utxos |-> taken,
                   total_input |-> total_input]
             ELSE IF ~u64_lt(grown.val, needed.val)
             THEN [ok |-> TRUE, selected_utxos |-> taken,
                   total_input |-> grown.val]
             ELSE SelectUtxos(Tail(utxos), taken, grown.val, amount, fee,
                              overflow_checks)

\* BlockchainChronicler::create_transaction; id and nonce are the values
\* drawn by generate_transaction_id and generate_nonce.  The status is "Ok",
\* "InsufficientFunds" or "Panic" (an arithmetic overflow in a build with
\* overflow checks); story is <<the transaction>> when Ok
create_transaction(sender, recipient, amount, fee, id, nonce, db, spent, overflow_checks) ==
    LET utxos == find_utxos_for_address(db, spent, sender)
        picked == SelectUtxos(utxos, <<>>, U64(0), amount, fee,
                              overflow_checks)
        needed == plain_add(amount, fee, overflow_checks)
        less_amount == plain_sub(picked.total_input, amount, overflow_checks)
        change == plain_sub(less_amount.val, fee, overflow_checks)
        outputs == <<Output(recipient, amount)>>
                   \o (IF u64_lt(U64(0), change.val)
                       THEN <<Output(sender, change.val)>> ELSE <<>>)
        body == [inputs |-> [i \in 1..Len(picked.selected_utxos) |->
                                picked.selected_utxos[i].ref],
                 outputs |-> outputs, fee |-> fee, nonce |-> nonce]
    IN  IF ~picked.ok \/ ~needed.ok THEN [status |-> "Panic", story |-> <<>>]
        ELSE IF u64_lt(picked.total_input, needed.val)
        THEN [status |-> "InsufficientFunds", story |-> <<>>]
        ELSE IF ~less_amount.ok \/ ~change.ok
        THEN [status |-> "Panic", story |-> <<>>]
        ELSE [status |-> "Ok", story |-> <<Story(id, body, sender, "signed")>>]

\* unspent-output stores a wallet may face
TwoOutputStore ==
    [k \in {"g:0", "g:1", "g:2"} |->
        IF k = "g:1" THEN Output("bob", U64(100))
        ELSE IF k = "g:0" THEN Output("alice", U64(1000))
        ELSE Output("alice", U64(500))]

HugeOutputStore ==
    [k \in {"g:0", "g:3"} |->
        IF k = "g:0" THEN Output("alice", U64(1000))
        ELSE Output("alice", U64_MAX)]

WalletStores == {EmptyMap, FundedStore, TwoOutputStore, HugeOutputStore}

WalletAmounts == {U64(0), U64(50), U64(950), U64(1000), U64(1500), U64_MAX}

WalletFees == {U64(0), U64(1), U64(50), U64(1000)}

\* values generate_nonce may draw
WalletNonces == {0, 1}

WalletInit ==
    /\ phase = "Running"
    /\ build \in [overflow_checks : BOOLEAN]
    /\ configuration = DefaultConfiguration
    /\ mempool = <<>>
    /\ block_db = Put(EmptyMap, 0, GenesisChapter(current_timestamp))
    /\ tx_db = EmptyMap
    /\ chain_tip = <<GenesisChapter(current_timestamp)>>
    /\ block_index = {<<GenesisChapter(current_timestamp).chapter_essence, 0>>}
    /\ utxo_db \in WalletStores
    /\ unspent_outputs = EmptyMap
    /\ spent_outputs = {}
    /\ miner_pc = "sleep"
    /\ selected = <<>>
    /\ broadcasts = {}
    /\ event = Event("none", "Ok")
    /\ PowIdle
    /\ ToolsIdle

\* a call of create_transaction; the event keeps the request beside the result
WalletCreates ==
    /\ \E sender \in PublicKeys, recipient \in PublicKeys,
          amount \in WalletAmounts, fee \in WalletFees, nonce \in WalletNonces :
          event' = Event("create_transaction",
                         [sender |-> sender, recipient |-> recipient,
                          amount |-> amount, fee |-> fee,
                          made |-> create_transaction(
                                      sender, recipient, amount, fee, "t1",
                                      nonce, utxo_db, spent_outputs,
                                      build.overflow_checks)])
    /\ UNCHANGED tool_vars
    /\ UNCHANGED <<phase, build, configuration, mempool, utxo_db,
                   unspent_outputs, spent_outputs, miner_pc, selected,
                   broadcasts, block_db, tx_db, chain_tip,
                   block_index, pow_vars>>

WalletNext == WalletCreates

WalletSpec == WalletInit /\ [][WalletNext]_vars

-----------------------------------------------------------------------------
(* defi_protocol_tool.rs: the wallet guardian and the orchestrator *)

\* An address is a string.  The model keeps what the program reads of it:
\* its first two characters (all of it when it is shorter) and how many
\* one-byte and two-byte characters follow them.
Address(head, ascii, wide) == [head |-> head, ascii |-> ascii, wide |-> wide]

\* the UTF-8 width of a character
Utf8Width(c) == IF c = "U+00E9" THEN 2 ELSE 1

\* str::len: the length of the UTF-8 encoding, in bytes
len(address) ==
    (IF Len(address.head) >= 1 THEN Utf8Width(address.head[1]) ELSE 0)
    + (IF Len(address.head) = 2 THEN Utf8Width(address.head[2]) ELSE 0)
    + address.ascii + 2 * address.wide

\* str::chars().count()
char_count(address) == Len(address.head) + address.ascii + address.wide

\* address.starts_with("0x")
starts_with_0x(address) == address.head = <<"0", "x">>

address_proves_its_worthiness(address) ==
    len(address) = 42 /\ starts_with_0x(address)

\* WalletGuardian::guardian_accepts_responsibility: the Result, with the
\* guardian in made when it is Ok
guardian_accepts_responsibility(mystical_address) ==
    IF ~address_proves_its_worthiness(mystical_address)
    THEN [result |-> "AddressLacksCredibility", made |-> <<>>]
    ELSE [result |-> "Ok",
          made |-> <<[mystical_address |-> mystical_address,
                      protected_assets |-> EmptyMap,
                      legend_book |-> <<>>]>>]

\* DeFiStoryOrchestrator::orchestrator_begins_the_great_tale
orchestrator_begins_the_great_tale(guardian_address) ==
    LET wallet == guardian_accepts_responsibility(guardian_address)
    IN  IF wallet.result # "Ok" THEN [result |-> wallet.result, made |-> <<>>]
        ELSE [result |-> "Ok",
              made |-> <<[wallet_guardian |-> wallet.made[1],
                          protocol_spirits |-> {"UniswapTheExchanger",
                                                "AaveTheGiver"}]>>]

\* the first two characters of the addresses tried
AddressHeads ==
    {<<"0", "x">>, <<"0", "X">>, <<"x", "0">>, <<"U+00E9", "x">>, <<"i", "n">>}

\* numbers of one-byte characters after the first two: 22 is
\* "invalid_mystical_address", 40 a well-formed address
AsciiCounts == {22} \cup (36..41)

WideCounts == 0..2

Addresses ==
    {Address(head, ascii, wide) :
        head \in AddressHeads, ascii \in AsciiCounts, wide \in WideCounts}
    \cup {Address(<<>>, 0, 0), Address(<<"0">>, 0, 0)}

DefiInit == RepoInit

\* a call of WalletGuardian::guardian_accepts_responsibility; wallet_guardian
\* is the guardian the call returned, if any
GuardianAcceptsResponsibility ==
    /\ \E address \in Addresses :
          LET answer == guardian_accepts_responsibility(address)
          IN  /\ wallet_guardian' = answer.made
              /\ event' = Event("guardian_accepts_responsibility",
                                [address |-> address, result |-> answer.result])
    /\ UNCHANGED <<orchestrator, saga>>
    /\ UNCHANGED <<phase, build, configuration, mempool, block_db, tx_db,
                   chain_tip, block_index, utxo_db, unspent_outputs,
                   spent_outputs, miner_pc, selected, broadcasts, pow_vars>>

\* a call of DeFiStoryOrchestrator::orchestrator_begins_the_great_tale
OrchestratorBeginsTheGreatTale ==
    /\ \E address \in Addresses :
          LET answer == orchestrator_begins_the_great_tale(address)
          IN  /\ orchestrator' = answer.made
              /\ event' = Event("orchestrator_begins_the_great_tale",
                                [address |-> address, result |-> answer.result])
    /\ UNCHANGED <<wallet_guardian, saga>>
    /\ UNCHANGED <<phase, build, configuration, mempool, block_db, tx_db,
                   chain_tip, block_index, utxo_db, unspent_outputs,
                   spent_outputs, miner_pc, selected, broadcasts, pow_vars>>

DefiNext ==
    \/ GuardianAcceptsResponsibility
    \/ OrchestratorBeginsTheGreatTale

DefiSpec == DefiInit /\ [][DefiNext]_vars

-----------------------------------------------------------------------------
(* defi_protocol_tool.rs: the rituals of the protocol spirits *)

\* the largest power_amount of a ritual
MaxPower == 1000

\* the longest legend book
MaxQuests == 2

\* DigitalAsset (the fields the rituals read)
DigitalAsset(essence, current_power) ==
    [essence |-> essence, current_power |-> current_power]

\* SacredRitual; asset is the offering of a transmutation and the asset of
\* the four other rituals, desired_form is "" but for a transmutation
SacredRitual(kind, asset, desired_form, power_amount) ==
    [kind |-> kind, asset |-> asset, desired_form |-> desired_form,
     power_amount |-> power_amount]

\* AssetQuest
AssetQuest(protocol_spirit, sacred_ritual, energy_limit) ==
    [quest_id |-> "0xab54a98ceb1f0ad2",
     protocol_spirit |-> protocol_spirit,
     sacred_ritual |-> sacred_ritual,
     energy_limit |-> energy_limit,
     quest_outcome |-> "LegendComplete"]

\* WalletGuardian::asset_finds_sanctuary
asset_finds_sanctuary(guardian, asset) ==
    [guardian EXCEPT !.protected_assets = Put(@, asset.essence, asset)]

\* WalletGuardian::guardian_whispers_asset_secrets: <<>> is None
guardian_whispers_asset_secrets(guardian, essence) ==
    IF essence \in DOMAIN guardian.protected_assets
    THEN <<guardian.protected_assets[essence]>> ELSE <<>>

\* WalletGuardian::asset_power_transforms: the Result and the guardian after
asset_power_transforms(guardian, essence, new_power) ==
    IF essence \in DOMAIN guardian.protected_assets
    THEN [result |-> "Ok",
          guardian |-> [guardian EXCEPT
                           !.protected_assets[essence].current_power = new_power]]
    ELSE [result |-> "AssetVanishedIntoVoid", guardian |-> guardian]

\* UniswapExchangerSpirit::ancient_alchemy_calculates_output with both
\* reserves at 1_000_000_000: (a * 997 * R) / (R * 1000 + a * 997). With
\* t = 997 a = 1000 q + r and a <= MaxPower, t * R - q * (1000 R + t)
\* = r * R - q * t lies in [0, 1000 R + t) when r > 0 and in
\* [-(1000 R + t), 0) when r = 0 < a, so the quotient is q, or q - 1
ancient_alchemy_calculates_output(offering_amount) ==
    LET offering_with_tribute == offering_amount * 997
    IN  IF offering_amount = 0 THEN 0
        ELSE IF offering_with_tribute % 1000 = 0
        THEN offering_with_tribute \div 1000 - 1
        ELSE offering_with_tribute \div 1000

\* UniswapExchangerSpirit::spirit_calculates_energy_cost and the one of
\* AaveLendingSpirit: 0 stands for RitualForbiddenBySpirit
spirit_calculates_energy_cost(spirit, ritual) ==
    IF spirit = "UniswapTheExchanger"
    THEN (IF ritual.kind = "AssetTransmutation" THEN 150000 ELSE 0)
    ELSE IF ritual.kind = "PowerOffering" THEN 200000
    ELSE IF ritual.kind = "PowerBorrowing" THEN 250000
    ELSE IF ritual.kind = "DebtSettlement" THEN 180000
    ELSE IF ritual.kind = "PowerReclamation" THEN 220000
    ELSE 0

\* UniswapExchangerSpirit::spirit_performs_sacred_ritual: the Result and
\* the guardian after the call
uniswap_spirit_performs_sacred_ritual(guardian, ritual) ==
    LET offering_asset == guardian_whispers_asset_secrets(guardian, ritual.asset)
        lowered == asset_power_transforms(
                       guardian, ritual.asset,
                       offering_asset[1].current_power - ritual.power_amount)
        desired == guardian_whispers_asset_secrets(lowered.guardian,
                                                   ritual.desired_form)
        current_desired_power ==
            IF desired = <<>> THEN 0 ELSE desired[1].current_power
        raised == asset_power_transforms(
                       lowered.guardian, ritual.desired_form,
                       current_desired_power
                          + ancient_alchemy_calculates_output(ritual.power_amount))
        quest == AssetQuest("UniswapTheExchanger", ritual, 150000)
    IN  IF ritual.kind # "AssetTransmutation"
        THEN [result |-> "RitualForbiddenBySpirit", guardian |-> guardian]
        ELSE IF offering_asset = <<>>
        THEN [result |-> "AssetVanishedIntoVoid", guardian |-> guardian]
        ELSE IF offering_asset[1].current_power < ritual.power_amount
        THEN [result |-> "PowerInsufficient", guardian |-> guardian]
        ELSE IF lowered.result # "Ok"
        THEN [result |-> lowered.result, guardian |-> lowered.guardian]
        ELSE IF raised.result # "Ok"
        THEN [result |-> raised.result, guardian |-> raised.guardian]
        ELSE [result |-> "Ok",
              guardian |-> [raised.guardian EXCEPT
                               !.legend_book = Append(@, quest)]]

\* AaveLendingSpirit::spirit_performs_sacred_ritual
aave_spirit_performs_sacred_ritual(guardian, ritual) ==
    LET held == guardian_whispers_asset_secrets(guardian, ritual.asset)
        quest == AssetQuest("AaveTheGiver", ritual,
                            spirit_calculates_energy_cost("AaveTheGiver", ritual))
        offered == asset_power_transforms(
                       guardian, ritual.asset,
                       held[1].current_power - ritual.power_amount)
        borrowed == asset_power_transforms(
                       guardian, ritual.asset,
                       (IF held = <<>> THEN 0 ELSE held[1].current_power)
                          + ritual.power_amount)
        changed == IF ritual.kind = "PowerOffering" THEN offered ELSE borrowed
    IN  IF spirit_calculates_energy_cost("AaveTheGiver", ritual) = 0
        THEN [result |-> "RitualForbiddenBySpirit", guardian |-> guardian]
        ELSE IF ritual.kind \notin {"PowerOffering", "PowerBorrowing"}
        THEN [result |-> "RitualForbiddenBySpirit", guardian |-> guardian]
        ELSE IF ritual.kind = "PowerOffering" /\ held = <<>>
        THEN [result |-> "AssetVanishedIntoVoid", guardian |-> guardian]
        ELSE IF ritual.kind = "PowerOffering"
                /\ held[1].current_power < ritual.power_amount
        THEN [result |-> "PowerInsufficient", guardian |-> guardian]
        ELSE IF changed.result # "Ok"
        THEN [result |-> changed.result, guardian |-> changed.guardian]
        ELSE [result |-> "Ok",
              guardian |-> [changed.guardian EXCEPT
                               !.legend_book = Append(@, quest)]]

\* ProtocolCommunion::spirit_performs_sacred_ritual of either spirit
spirit_performs_sacred_ritual(spirit, guardian, ritual) ==
    IF spirit = "UniswapTheExchanger"
    THEN uniswap_spirit_performs_sacred_ritual(guardian, ritual)
    ELSE aave_spirit_performs_sacred_ritual(guardian, ritual)

\* the assets a guardian is given and the rituals asked of the spirits
Essences == {"WETH", "USDC"}

RitualEssences == Essences \cup {"DAI"}

PowerAmounts == {0, 400, MaxPower}

RitualKinds ==
    {"AssetTransmutation", "PowerOffering", "PowerBorrowing",
     "DebtSettlement", "PowerReclamation"}

SacredRituals ==
    { SacredRitual("AssetTransmutation", offering, desired, amount) :
        offering \in RitualEssences, desired \in RitualEssences,
        amount \in PowerAmounts }
    \cup { SacredRitual(kind, asset, "", amount) :
             kind \in RitualKinds \ {"AssetTransmutation"},
             asset \in RitualEssences, amount \in PowerAmounts }

ProtocolSpirits == {"UniswapTheExchanger", "AaveTheGiver"}

\* a guardian accepted for a well-formed address, with nothing to guard yet
RitualInit ==
    /\ phase = "Idle"
    /\ build = [overflow_checks |-> TRUE]
    /\ configuration = DefaultConfiguration
    /\ mempool = <<>>
    /\ block_db = EmptyMap
    /\ tx_db = EmptyMap
    /\ chain_tip = <<>>
    /\ block_index = {}
    /\ utxo_db = EmptyMap
    /\ unspent_outputs = EmptyMap
    /\ spent_outputs = {}
    /\ miner_pc = "off"
    /\ selected = <<>>
    /\ broadcasts = {}
    /\ event = Event("none", "Ok")
    /\ PowIdle
    /\ wallet_guardian
          = guardian_accepts_responsibility(Address(<<"0", "x">>, 40, 0)).made
    /\ orchestrator = <<>>
    /\ saga = <<>>

\* a call of WalletGuardian::asset_finds_sanctuary
AssetFindsSanctuary ==
    /\ \E essence \in Essences, power \in {0, MaxPower} :
          /\ wallet_guardian' = <<asset_finds_sanctuary(
                                     wallet_guardian[1],
                                     DigitalAsset(essence, power))>>
          /\ event' = Event("asset_finds_sanctuary", "Ok")
    /\ UNCHANGED <<orchestrator, saga>>
    /\ UNCHANGED <<phase, build, configuration, mempool, block_db, tx_db,
                   chain_tip, block_index, utxo_db, unspent_outputs,
                   spent_outputs, miner_pc, selected, broadcasts, pow_vars>>

\* a call of spirit_performs_sacred_ritual on the guardian
SpiritPerformsSacredRitual ==
    /\ Len(wallet_guardian[1].legend_book) < MaxQuests
    /\ \E spirit \in ProtocolSpirits, ritual \in SacredRituals :
          LET answer == spirit_performs_sacred_ritual(spirit, wallet_guardian[1],
                                                      ritual)
          IN  /\ wallet_guardian' = <<answer.guardian>>
              /\ event' = Event("spirit_performs_sacred_ritual", answer.result)
    /\ UNCHANGED <<orchestrator, saga>>
    /\ UNCHANGED <<phase, build, configuration, mempool, block_db, tx_db,
                   chain_tip, block_index, utxo_db, unspent_outputs,
                   spent_outputs, miner_pc, selected, broadcasts, pow_vars>>

RitualNext ==
    \/ AssetFindsSanctuary
    \/ SpiritPerformsSacredRitual

RitualSpec == RitualInit /\ [][RitualNext]_vars

-----------------------------------------------------------------------------
(* The MEV Protection Guardian: complete_mev_protection_saga *)

\* An f64 of the program is an integer number of hundred-thousandths: every
\* constant of the program (0.2, 0.95, 0.285, ...) and every quotient it
\* forms (value / 100000.0, gas_price / 200.0) is a whole number of them.
\* 0.5 is 50000, 1.0 is 100000.

Lesser(a, b) == IF a < b THEN a ELSE b

Greater(a, b) == IF a > b THEN a ELSE b

\* InnocentTransaction (id and user_address are not read by the saga)
InnocentTransaction(target_contract, value, gas_price, data) ==
    [target_contract |-> target_contract, value |-> value,
     gas_price |-> gas_price, data |-> data, vulnerability_score |-> 0]

ShadowHunter(bot_id, attack_type, profit_threshold, speed_rating) ==
    [bot_id |-> bot_id, attack_type |-> attack_type,
     profit_threshold |-> profit_threshold, speed_rating |-> speed_rating]

transaction_looks_like_swap(transaction) ==
    /\ Len(transaction.data) > 4
    /\ \/ SubSeq(transaction.data, 1, 4) = <<56, 237, 23, 57>>
       \/ SubSeq(transaction.data, 1, 4) = <<127, 243, 106, 181>>

is_popular_defi_contract(address) ==
    address \in {"0x7a250d5630B4cF539739dF2C5dAcb4c659F2488D",
                 "0xE592427A0AEce92De3Edee1F18E0157C05861564",
                 "0x881D40237659C251811CEC9c364ef91dC08D300C"}

shadow_hunters_sense_opportunity(transaction) ==
    (IF transaction.value > 10000 /\ transaction_looks_like_swap(transaction)
     THEN <<ShadowHunter("sandwich_serpent_001", "SandwichAttack",
                         transaction.value \div 100, 95000)>>
     ELSE <<>>)
    \o (IF is_popular_defi_contract(transaction.target_contract)
        THEN <<ShadowHunter("frontrun_phantom_001", "Frontrunning", 1000,
                            98000)>>
        ELSE <<>>)
    \o (IF transaction.gas_price > 50
        THEN <<ShadowHunter("flashloan_fiend_001", "FlashloanArbitrage", 5000,
                            92000)>>
        ELSE <<>>)

transaction_reveals_its_vulnerabilities(transaction) ==
    Lesser(Lesser(transaction.value, 40000)
             + Lesser(transaction.gas_price * 500, 30000)
             + (IF is_popular_defi_contract(transaction.target_contract)
                THEN 30000 ELSE 0),
           100000)

\* Act I; it has no failing path
transaction_enters_dangerous_waters(transaction) ==
    [transaction |->
        [transaction EXCEPT !.vulnerability_score =
            transaction_reveals_its_vulnerabilities(transaction)],
     threats |-> shadow_hunters_sense_opportunity(transaction)]

classify_most_dangerous_attack(attack_types) ==
    IF "SandwichAttack" \in attack_types THEN "SandwichAttack"
    ELSE IF "FlashloanArbitrage" \in attack_types THEN "FlashloanArbitrage"
    ELSE IF "Frontrunning" \in attack_types THEN "Frontrunning"
    ELSE "Backrunning"

RECURSIVE FoldSpeed(_, _)
FoldSpeed(threats, acc) ==
    IF threats = <<>> THEN acc
    ELSE FoldSpeed(Tail(threats), Greater(acc, Head(threats).speed_rating))

RECURSIVE SumProfit(_)
SumProfit(threats) ==
    IF threats = <<>> THEN 0
    ELSE Head(threats).profit_threshold + SumProfit(Tail(threats))

analyze_shadow_hunter_capabilities(threats) ==
    LET attack_types == {threats[i].attack_type : i \in 1..Len(threats)}
    IN  [maximum_speed |-> FoldSpeed(threats, 0),
         combined_profit_target |-> SumProfit(threats),
         attack_diversity |-> Cardinality(attack_types),
         most_dangerous_attack |-> classify_most_dangerous_attack(attack_types)]

\* the spells cast, in the order of the pushes; <<>> makes the caller fail
\* with GuardianOverwhelmed
weave_protective_enchantments(transaction, threat_analysis) ==
    (IF transaction.vulnerability_score > 50000
     THEN <<"PrivateMempool">> ELSE <<>>)
    \o (IF threat_analysis.most_dangerous_attack = "SandwichAttack"
        THEN <<"SandwichImmunity">> ELSE <<>>)
    \o (IF threat_analysis.maximum_speed > 90000
        THEN <<"FrontrunningBarrier">> ELSE <<>>)
    \o (IF threat_analysis.attack_diversity > 2
        THEN <<"FlashloanShield">> ELSE <<>>)
    \o (IF /\ transaction.vulnerability_score > 80000
           /\ threat_analysis.maximum_speed > 95000
        THEN <<"TimeDelayEnchantment">> ELSE <<>>)

RECURSIVE SpeedBonus(_)
SpeedBonus(threats) ==
    IF threats = <<>> THEN 0
    ELSE (Head(threats).speed_rating * 3) \div 10 + SpeedBonus(Tail(threats))

\* a shield strength that leaves out base_strength
ShieldStrengthWithoutBase(threats) ==
    Lesser(Len(threats) * 20000 + SpeedBonus(threats), 100000)

calculate_required_shield_strength(threats) ==
    Lesser(50000 + Len(threats) * 20000 + SpeedBonus(threats), 100000)

should_use_private_pool(transaction, threats) ==
    transaction.vulnerability_score > 60000 \/ Len(threats) > 2

\* Act II
guardian_temple_awakens_to_protect(transaction, threats) ==
    LET threat_analysis == analyze_shadow_hunter_capabilities(threats)
        protection_spells ==
            weave_protective_enchantments(transaction, threat_analysis)
    IN  IF protection_spells = <<>>
        THEN [result |-> "GuardianOverwhelmed", guardian |-> <<>>,
              spells |-> <<>>]
        ELSE [result |-> "Ok",
              guardian |->
                <<[shield_strength |->
                      calculate_required_shield_strength(threats),
                   private_pool_access |->
                      should_use_private_pool(transaction, threats),
                   flashloan_detection |->
                      \E i \in 1..Len(threats) :
                          threats[i].attack_type = "FlashloanArbitrage",
                   sandwich_immunity |->
                      \E i \in 1..Len(threats) :
                          threats[i].attack_type = "SandwichAttack"]>>,
              spells |-> protection_spells]

\* a security level that leaves the protection spells out of the score
SecurityLevelOfShieldAlone(guardian, spells) ==
    LET protection_score == guardian.shield_strength
    IN  IF protection_score > 120000 /\ guardian.private_pool_access
        THEN "SacredSanctuary"
        ELSE IF protection_score > 80000 THEN "FullyShielded"
        ELSE IF protection_score > 50000 THEN "PartiallyProtected"
        ELSE "Vulnerable"

determine_sanctuary_security_level(guardian, spells) ==
    LET protection_score == guardian.shield_strength + Len(spells) * 20000
    IN  IF protection_score > 120000 /\ guardian.private_pool_access
        THEN "SacredSanctuary"
        ELSE IF protection_score > 80000 THEN "FullyShielded"
        ELSE IF protection_score > 50000 THEN "PartiallyProtected"
        ELSE "Vulnerable"

\* ((shield_strength * 10.0) as usize).max(1).min(5)
calculate_guardian_count(shield_strength) ==
    Lesser(Greater(shield_strength \div 10000, 1), 5)

create_protected_sanctuary(guardian, spells) ==
    [protected_transactions |-> <<>>,
     security_level |-> determine_sanctuary_security_level(guardian, spells),
     guardian_count |-> calculate_guardian_count(guardian.shield_strength)]

execute_transaction_in_sanctuary(transaction, sanctuary) ==
    IF sanctuary.security_level = "Vulnerable" THEN "SanctuaryBreach" ELSE "Ok"

\* Act III
transaction_finds_safe_harbor(transaction, guardian, protection_spells) ==
    LET sanctuary == create_protected_sanctuary(guardian, protection_spells)
        executed == execute_transaction_in_sanctuary(transaction, sanctuary)
    IN  IF executed # "Ok" THEN [result |-> executed, sanctuary |-> <<>>]
        ELSE [result |-> "Ok", sanctuary |-> <<sanctuary>>]

\* the Result of the saga, with the sanctuary when it is Ok
complete_mev_protection_saga(transaction) ==
    LET entered == transaction_enters_dangerous_waters(transaction)
        awakened == guardian_temple_awakens_to_protect(entered.transaction,
                                                       entered.threats)
    IN  IF awakened.result # "Ok"
        THEN [result |-> awakened.result, sanctuary |-> <<>>]
        ELSE transaction_finds_safe_harbor(entered.transaction,
                                           awakened.guardian[1],
                                           awakened.spells)

\* the transactions offered to the saga: the three popular routers, the
\* unknown contract of the tests and a router address in lower case
TargetContracts ==
    {"0x7a250d5630B4cF539739dF2C5dAcb4c659F2488D",
     "0xE592427A0AEce92De3Edee1F18E0157C05861564",
     "0x881D40237659C251811CEC9c364ef91dC08D300C",
     "0x0000000000000000000000000000000000000001",
     "0x7a250d5630b4cf539739df2c5dacb4c659f2488d"}

TransactionValues == {0, 100, 10000, 10001, 30000, 50000, 100000}

GasPrices == {0, 20, 50, 51, 100, 150}

\* call data: the bare swap selector of the tests, two swaps with arguments,
\* four zero bytes and none
CallData ==
    {<<56, 237, 23, 57>>,
     <<56, 237, 23, 57, 0, 0, 0, 100>>,
     <<127, 243, 106, 181, 0>>,
     <<0, 0, 0, 0>>,
     <<>>}

InnocentTransactions ==
    {InnocentTransaction(target, value, gas_price, data) :
        target \in TargetContracts, value \in TransactionValues,
        gas_price \in GasPrices, data \in CallData}

MevInit == RepoInit

\* a call of complete_mev_protection_saga
CompleteMevProtectionSaga ==
    /\ \E transaction \in InnocentTransactions :
          /\ saga' = <<[transaction |-> transaction,
                        outcome |-> complete_mev_protection_saga(transaction)]>>
          /\ event' = Event("complete_mev_protection_saga",
                            complete_mev_protection_saga(transaction).result)
    /\ UNCHANGED <<wallet_guardian, orchestrator>>
    /\ UNCHANGED <<phase, build, configuration, mempool, block_db, tx_db,
                   chain_tip, block_index, utxo_db, unspent_outputs,
                   spent_outputs, miner_pc, selected, broadcasts, pow_vars>>

MevNext == CompleteMevProtectionSaga

MevSpec == MevInit /\ [][MevNext]_vars

-----------------------------------------------------------------------------
(* transaction_story_arrives, called by any key holder *)

\* stories that spend an output with the key of someone it does not pay, and
\* one that spends an output with the key it pays
ForeignSpends ==
    { Story("t3", [inputs |-> <<Ref("g", 1)>>,
                   outputs |-> <<Output("alice", U64(50))>>,
                   fee |-> U64(50), nonce |-> 1], "alice", "signed"),
      Story("t3", [inputs |-> <<Ref("g", 0)>>,
                   outputs |-> <<Output("bob", U64(900))>>,
                   fee |-> U64(100), nonce |-> 1], "bob", "signed"),
      Story("t3", [inputs |-> <<Ref("g", 1)>>,
                   outputs |-> <<Output("alice", U64(50))>>,
                   fee |-> U64(50), nonce |-> 1], "bob", "signed") }

SubmittedStories == ArrivingStories \cup ForeignSpends

\* a running node whose mining task sleeps between two periods
AdmissionInit ==
    /\ phase = "Running"
    /\ build \in [overflow_checks : BOOLEAN]
    /\ configuration \in Configurations
    /\ mempool = <<>>
    /\ block_db = Put(EmptyMap, 0, GenesisChapter(current_timestamp))
    /\ tx_db = EmptyMap
    /\ chain_tip = <<GenesisChapter(current_timestamp)>>
    /\ block_index = {<<GenesisChapter(current_timestamp).chapter_essence, 0>>}
    /\ utxo_db \in InitialStores
    /\ unspent_outputs = EmptyMap
    /\ spent_outputs = {}
    /\ miner_pc = "sleep"
    /\ selected = <<>>
    /\ broadcasts = {}
    /\ event = Event("none", "Ok")
    /\ PowIdle
    /\ ToolsIdle

\* BlockchainChronicler::transaction_story_arrives
AnyStoryArrives ==
    /\ phase = "Running"
    /\ \E story \in SubmittedStories : StoryArrives(story)
    /\ UNCHANGED tool_vars
    /\ UNCHANGED <<phase, build, configuration, block_db, tx_db, chain_tip,
                   block_index, utxo_db, unspent_outputs, spent_outputs,
                   miner_pc, selected, pow_vars>>

AdmissionNext == AnyStoryArrives

AdmissionSpec == AdmissionInit /\ [][AdmissionNext]_vars

-----------------------------------------------------------------------------
(* What the claims speak about *)

SeqToSet(seq) == {seq[i] : i \in 1..Len(seq)}

\* the stories of the chapters in the block store
StoredStories ==
    UNION {SeqToSet(block_db[n].transaction_tales) : n \in DOMAIN block_db}

\* the output references consumed by stories of stored chapters
CommittedSpentRefs ==
    UNION {SeqToSet(story.inputs_consumed) : story \in StoredStories}

\* every story the node holds: pending, drained for mining, or stored
HeldStories == SeqToSet(mempool) \cup SeqToSet(selected) \cup StoredStories

\* what transaction_story_arrives would return for story in this state
WouldReturn(story) ==
    Admission(story, configuration, unspent_outputs, utxo_db,
              build.overflow_checks, tx_db, mempool)

Arrived == event.op = "transaction_story_arrives"

\* the story whose admission the last call reported
JustAdmitted == mempool[Len(mempool)]

\* the exact value of the outputs the inputs of a story resolve to
ResolvedInputValue(story) ==
    ExactSum([i \in 1..Len(story.inputs_consumed) |->
                utxo_db[utxo_key(story.inputs_consumed[i])].value_locked])

\* the exact value a story hands out: its outputs plus its fee
SpentValue(story) ==
    WideAdd(ExactSum([i \in 1..Len(story.outputs_created) |->
                        story.outputs_created[i].value_locked]),
            Widen(story.story_fee))

\* the occurrences of a story id among the pool, the drained batch and the
\* stored chapters
Occurrences(id) ==
    Cardinality({i \in 1..Len(mempool) : mempool[i].story_id = id})
    + Cardinality({i \in 1..Len(selected) : selected[i].story_id = id})
    + Cardinality({<<n, i>> \in (DOMAIN block_db) \X (1..Len(mempool) + Len(selected) + 4) :
                      /\ i <= Len(block_db[n].transaction_tales)
                      /\ block_db[n].transaction_tales[i].story_id = id})

-----------------------------------------------------------------------------
(* C1 *)

\* C1: every stored chapter above the genesis names, as its previous
\* essence, the essence of the stored chapter one below it.
C1_ChaptersAreLinked ==
    \A n \in DOMAIN block_db :
        /\ block_db[n].chapter_number = n
        /\ n > 0 => /\ (n - 1) \in DOMAIN block_db
                    /\ block_db[n].previous_chapter_essence
                         = block_db[n - 1].chapter_essence

C1_TwoChaptersMined ==
    /\ event = Event("mine_new_chapter", "Ok")
    /\ 2 \in DOMAIN block_db
    /\ block_db[2].previous_chapter_essence = block_db[1].chapter_essence
    /\ block_db[1].previous_chapter_essence = "genesis_hash"

-----------------------------------------------------------------------------
(* C2 *)

\* C2: a story admitted by transaction_story_arrives consumes no output
\* that a story of a stored chapter has already consumed.
C2_SpentOutputIsRefused ==
    (Arrived /\ event.result = "Ok") =>
        SeqToSet(JustAdmitted.inputs_consumed) \cap CommittedSpentRefs = {}

-----------------------------------------------------------------------------
(* C3 *)

\* C3: no two different stories held by the node (pending, being mined or
\* stored) consume the same output.
C3_OneSpenderPerOutput ==
    \A a \in HeldStories, b \in HeldStories :
        a # b => SeqToSet(a.inputs_consumed) \cap SeqToSet(b.inputs_consumed) = {}

-----------------------------------------------------------------------------
(* C4 *)

\* C4: every story in the pending pool is funded: the value of its resolved
\* inputs is at least the value of its outputs plus its fee.
C4_PendingStoriesAreFunded ==
    \A story \in SeqToSet(mempool) :
        ~LimbsLess(ResolvedInputValue(story), SpentValue(story))

-----------------------------------------------------------------------------
(* C5 *)

\* C5: a validly signed story whose id is in the pending pool or in the
\* transaction store is answered with DuplicateStory.
C5_KnownIdIsDuplicate ==
    phase = "Running" =>
        \A story \in ArrivingStories :
            (/\ signature_tells_the_truth(story) = "true"
             /\ \/ story.story_id \in DOMAIN tx_db
                \/ \E held \in SeqToSet(mempool) : held.story_id = story.story_id)
            => WouldReturn(story) = "DuplicateStory"

-----------------------------------------------------------------------------
(* C6 *)

\* C6: a story id occurs at most once among the pending pool, the batch
\* being mined and the stored chapters.
C6_StoryIdsAreUnique ==
    \A id \in StoryIds : Occurrences(id) <= 1

-----------------------------------------------------------------------------
(* C7 *)

\* C7: a call of transaction_story_arrives that returns an error leaves the
\* pending pool, the chain repository and the UTXO ledger as they were and
\* broadcasts nothing.
C7_RejectionChangesNothing ==
    [][(event'.op = "transaction_story_arrives" /\ event'.result = "Rejected")
         => UNCHANGED <<mempool, block_db, tx_db, chain_tip, block_index,
                        utxo_db, unspent_outputs, spent_outputs, broadcasts,
                        selected>>]_vars

\* a rejected story arrived while the pool held a story and a chapter had
\* been mined; each of the six validation failures is on offer in that state
C7_RejectedWithPendingStories ==
    /\ Arrived /\ event.result = "Rejected"
    /\ mempool # <<>>
    /\ 1 \in DOMAIN block_db
    /\ \A failure \in {"StoryBearsFalseWitness", "DuplicateStory",
                       "UTXONotFound", "NarratorLacksResources",
                       "InsufficientFee", "InvalidNonce"} :
          \E story \in ArrivingStories : WouldReturn(story) = failure

-----------------------------------------------------------------------------
(* C8 *)

\* a stored chapter with one of its fields altered
Corruptions(block) ==
    { [block EXCEPT !.chapter_essence = "corrupted"],
      [block EXCEPT !.previous_chapter_essence = "corrupted"],
      [block EXCEPT !.merkle_tree_of_truth = "corrupted"],
      [block EXCEPT !.transaction_tales = <<>>],
      [block EXCEPT !.timestamp_of_creation = @ + 1],
      [block EXCEPT !.proof_of_storytelling.nonce_of_discovery = @ + 1] }
    \ {block}

\* C8: the integrity check accepts the chain as built and rejects it after
\* any one stored chapter has been altered.
C8_IntegrityDetectsCorruption ==
    phase = "Running" =>
        /\ verify_chain_integrity(block_db)
        /\ \A n \in DOMAIN block_db : \A bad \in Corruptions(block_db[n]) :
              ~verify_chain_integrity(Put(block_db, n, bad))

-----------------------------------------------------------------------------
(* C9 *)

\* C9: the genesis chapter has number 0, a previous essence of 64 zero
\* characters and no stories, and the integrity check accepts a chain that
\* holds the genesis chapter alone.
C9_GenesisChapter ==
    phase = "Running" =>
        /\ 0 \in DOMAIN block_db
        /\ block_db[0].chapter_number = 0
        /\ block_db[0].previous_chapter_essence
             = "0000000000000000000000000000000000000000000000000000000000000000"
        /\ block_db[0].transaction_tales = <<>>
        /\ DOMAIN block_db = {0} => verify_chain_integrity(block_db)

C9_OnlyGenesis ==
    /\ event = Event("new_chronicle_begins", "Ok")
    /\ DOMAIN block_db = {0}
    /\ chain_tip = <<block_db[0]>>

-----------------------------------------------------------------------------
(* C10 *)

NoWorkerFinds ==
    /\ pow_block # <<>>
    /\ \A thread_id \in ThreadIds : WorkerFinds(pow_block, thread_id) = <<>>

\* C10: a search in which no worker finds a qualifying nonce in its range
\* returns, and returns the proof-of-work error.
C10_ExhaustionIsReported ==
    (NoWorkerFinds /\ pow_pc = "recv")
        ~> (pow_pc = "returned" /\ pow_out = <<"Err", "ProofOfWorkFailed">>)

-----------------------------------------------------------------------------
(* C11 *)

\* C11: the pair a search returns is the block hash of its candidate with
\* the returned nonce, that hash meets the candidate's difficulty target,
\* and the chapter then committed carries that hash as its essence and that
\* nonce in its proof of work.
C11_ReturnedProofIsTheCommittedOne ==
    (pow_pc = "returned" /\ pow_out[1] = "Ok") =>
        LET hash == pow_out[2][1]
            nonce == pow_out[2][2]
            target == pow_block.proof_of_storytelling.difficulty_target
        IN  /\ hash = Sha256Hex(ToString(pow_block.chapter_number)
                                \o ToString(pow_block.timestamp_of_creation)
                                \o pow_block.previous_chapter_essence
                                \o pow_block.merkle_tree_of_truth
                                \o u64_to_string(target)
                                \o ToString(nonce))
            /\ hash_meets_difficulty(hash, target)
            /\ event = Event("mine_new_chapter", "Ok") =>
                  LET stored == block_db[pow_block.chapter_number]
                  IN  /\ stored.chapter_essence = hash
                      /\ stored.proof_of_storytelling.nonce_of_discovery = nonce
                      /\ chain_tip = <<stored>>

\* a search on a target asking for two leading zeros returned and its
\* chapter was committed
C11_HardProofCommitted ==
    /\ pow_pc = "returned" /\ pow_out[1] = "Ok"
    /\ event = Event("mine_new_chapter", "Ok")
    /\ leading_zeros(pow_block.proof_of_storytelling.difficulty_target) \div 4 = 2
    /\ pow_block.chapter_number \in DOMAIN block_db

-----------------------------------------------------------------------------
(* C12 *)

RepositoryChanged ==
    \/ block_db' # block_db
    \/ tx_db' # tx_db
    \/ chain_tip' # chain_tip
    \/ block_index' # block_index

\* C12: while the repository has a tip, add_block_chapter changes the
\* repository only for a chapter numbered one above the tip that names the
\* tip's essence as its previous essence.
C12_OnlySuccessorsOfTheTipAreStored ==
    [][(RepositoryChanged /\ chain_tip # <<>>) =>
          LET n == chain_tip[1].chapter_number + 1
          IN  /\ n \in DOMAIN block_db'
              /\ block_db' = Put(block_db, n, block_db'[n])
              /\ block_db'[n].previous_chapter_essence
                    = chain_tip[1].chapter_essence]_vars

-----------------------------------------------------------------------------
(* C13 *)

\* C13: the chain tip changes only in a call of add_block_chapter whose
\* flush succeeded, that is, one that returned Ok.
C13_TipMovesOnlyAfterFlush ==
    [][chain_tip' # chain_tip => event'.result = "Ok"]_vars

-----------------------------------------------------------------------------
(* C14 *)

\* C14: the stored chapter numbers are 0..n without a gap, the tip is the
\* chapter numbered n, and no step replaces a chapter already stored under
\* a number.
C14_ChaptersInOrderAndNeverRewritten ==
    /\ [](phase = "Running" =>
            /\ DOMAIN block_db = 0..Max(DOMAIN block_db)
            /\ \A n \in DOMAIN block_db : block_db[n].chapter_number = n
            /\ chain_tip = <<block_db[Max(DOMAIN block_db)]>>)
    /\ [][\A n \in DOMAIN block_db : block_db'[n] = block_db[n]]_vars

-----------------------------------------------------------------------------
(* C15 *)

\* C15: after a search in which no worker finds a qualifying nonce, the
\* mining task is back at its period loop and every story of the drained
\* batch is still pending: in the pool or kept for the retry.
C15_ExhaustedBatchStaysPending ==
    (NoWorkerFinds /\ pow_pc = "recv")
        ~> (/\ miner_pc = "sleep"
            /\ \A story \in SeqToSet(pow_block.transaction_tales) :
                  story \in SeqToSet(mempool) \cup SeqToSet(selected))

-----------------------------------------------------------------------------
(* C16 *)

\* C16: for every story of a stored chapter, find_unspent_output no longer
\* finds the outputs the story consumed and finds each output it created
\* under the key "story_id:index".
C16_LedgerFollowsCommits ==
    \A story \in StoredStories :
        /\ \A ref \in SeqToSet(story.inputs_consumed) :
              find_unspent_output(unspent_outputs, utxo_db, utxo_key(ref)) = <<>>
        /\ \A i \in 1..Len(story.outputs_created) :
              find_unspent_output(unspent_outputs, utxo_db,
                                  utxo_key(Ref(story.story_id, i - 1)))
                 = <<story.outputs_created[i]>>

-----------------------------------------------------------------------------
(* C17 *)

\* a validly signed story whose inputs all resolve and whose outputs plus
\* fee, added exactly, exceed the u64 range
OverflowsOnValidation(story) ==
    /\ signature_tells_the_truth(story) = "true"
    /\ \A ref \in SeqToSet(story.inputs_consumed) :
          find_unspent_output(unspent_outputs, utxo_db, utxo_key(ref)) # <<>>
    /\ LimbsLess(Widen(U64_MAX), SpentValue(story))

\* C17: a story whose value summation overflows is answered with the
\* overflow error.
C17_OverflowIsAnError ==
    phase = "Running" =>
        \A story \in ArrivingStories :
            OverflowsOnValidation(story) => WouldReturn(story) = "ValueOverflow"

-----------------------------------------------------------------------------
(* C18 *)

\* a story with one field other than the signature changed
Tamperings(story) ==
    { [story EXCEPT !.story_id = "t9"],
      [story EXCEPT !.inputs_consumed[1].output_index = @ + 1],
      [story EXCEPT !.outputs_created[1].recipient_address = "mallory"],
      [story EXCEPT !.outputs_created[1].value_locked = U64(1)],
      [story EXCEPT !.outputs_created[1].locking_script =
                        PayToPublicKey("mallory")],
      [story EXCEPT !.story_fee = U64(0)],
      [story EXCEPT !.timestamp_of_telling = @ + 1],
      [story EXCEPT !.transaction_nonce = @ + 1],
      [story EXCEPT !.public_key_of_narrator =
                        IF @ = "alice" THEN "bob" ELSE "alice"] }

\* C18: changing any one field of an admitted, validly signed story while
\* keeping its signature makes the signature check fail.
C18_SignatureCoversEveryField ==
    \A story \in SeqToSet(mempool) :
        \A tampered \in Tamperings(story) :
            signature_tells_the_truth(tampered) # "true"

-----------------------------------------------------------------------------
(* C19 *)

\* every ordering of the elements of a sequence
Reorderings(seq) ==
    { [i \in 1..Len(seq) |-> seq[p[i]]] :
        p \in { q \in [1..Len(seq) -> 1..Len(seq)] :
                  \A i, j \in 1..Len(seq) : q[i] = q[j] => i = j } }

\* C19: the Merkle root of a candidate is the root of its list of stories
\* computed again, and every other ordering of that list, whose identifiers
\* are pairwise distinct, has a different root.
C19_MerkleRootIsOrderSensitive ==
    pow_block # <<>> =>
        LET stories == pow_block.transaction_tales
        IN  /\ pow_block.merkle_tree_of_truth
                  = weave_merkle_tree_of_truth(stories)
            /\ \A other \in Reorderings(stories) :
                  other # stories =>
                      weave_merkle_tree_of_truth(other)
                          # pow_block.merkle_tree_of_truth

\* a candidate over three stories, the odd case of the tree, was committed
C19_ThreeStoriesCommitted ==
    /\ pow_block # <<>>
    /\ Len(pow_block.transaction_tales) = 3
    /\ event = Event("mine_new_chapter", "Ok")
    /\ block_db[pow_block.chapter_number].merkle_tree_of_truth
          = pow_block.merkle_tree_of_truth

-----------------------------------------------------------------------------
(* C20 *)

-----------------------------------------------------------------------------
(* C21 *)

\* the keys of the store's outputs that pay the address and are not spent
UnspentKeysOf(address) ==
    {k \in DOMAIN utxo_db :
        utxo_db[k].recipient_address = address /\ k \notin spent_outputs}

\* the exact total of the values stored under a set of keys
RECURSIVE StoredTotal(_)
StoredTotal(keys) ==
    IF keys = {} THEN Widen(U64(0))
    ELSE LET k == CHOOSE x \in keys : TRUE
         IN  WideAdd(Widen(utxo_db[k].value_locked), StoredTotal(keys \ {k}))

\* the transaction answers the request: distinct unspent inputs of the
\* sender, amount to the recipient, positive change to the sender, and
\* inputs = amount + change + fee exactly
AnswersRequest(story, request) ==
    LET inputs == story.inputs_consumed
        outputs == story.outputs_created
        change == IF Len(outputs) = 2 THEN outputs[2].value_locked ELSE U64(0)
    IN  /\ Cardinality(SeqToSet(inputs)) = Len(inputs)
        /\ \A i \in 1..Len(inputs) :
              utxo_key(inputs[i]) \in UnspentKeysOf(request.sender)
        /\ Len(outputs) \in {1, 2}
        /\ outputs[1] = Output(request.recipient, request.amount)
        /\ Len(outputs) = 2 =>
              /\ outputs[2] = Output(request.sender, change)
              /\ change # U64(0)
        /\ story.story_fee = request.fee
        /\ StoredTotal({utxo_key(inputs[i]) : i \in 1..Len(inputs)})
              = ExactSum(<<request.amount, change, request.fee>>)

\* the validator's verdict on the story is not one of its signature or value
\* checks failing
PassesSignatureAndValueChecks(story) ==
    story_proves_its_authenticity(story, configuration, unspent_outputs,
                                  utxo_db, build.overflow_checks)
        \notin {"InvalidPublicKey", "InvalidSignature",
                "StoryBearsFalseWitness", "UTXONotFound", "Unauthorized",
                "ValueOverflow", "Panic", "NarratorLacksResources"}

\* C21: create_transaction returns InsufficientFunds exactly when the
\* sender's unspent outputs total less than amount + fee; otherwise it
\* returns a transaction over distinct unspent outputs of the sender, paying
\* amount to the recipient and the positive change to the sender, with
\* inputs = amount + change + fee, which passes the validator's signature and
\* value checks.
C21_CreatedTransactionIsFunded ==
    event.op = "create_transaction" =>
        LET request == event.result
            available == StoredTotal(UnspentKeysOf(request.sender))
            required == WideAdd(Widen(request.amount), Widen(request.fee))
        IN  /\ (request.made.status = "InsufficientFunds")
                  <=> LimbsLess(available, required)
            /\ request.made.status # "InsufficientFunds" =>
                  /\ request.made.status = "Ok"
                  /\ AnswersRequest(request.made.story[1], request)
                  /\ PassesSignatureAndValueChecks(request.made.story[1])
-----------------------------------------------------------------------------
(* C22 *)

\* the address is exactly 42 characters long and starts with 0x
Is42CharactersFrom0x(address) ==
    char_count(address) = 42 /\ address.head = <<"0", "x">>

\* C22: creating a wallet guardian (alone or for an orchestrator) succeeds
\* exactly when the address is 42 characters long and starts with 0x; for
\* any other address the call fails with AddressLacksCredibility and returns
\* no guardian and no orchestrator.
C22_GuardianOnlyForCredibleAddress ==
    /\ event.op = "guardian_accepts_responsibility" =>
          IF Is42CharactersFrom0x(event.result.address)
          THEN /\ event.result.result = "Ok"
               /\ wallet_guardian # <<>>
               /\ wallet_guardian[1].mystical_address = event.result.address
          ELSE /\ event.result.result = "AddressLacksCredibility"
               /\ wallet_guardian = <<>>
    /\ event.op = "orchestrator_begins_the_great_tale" =>
          IF Is42CharactersFrom0x(event.result.address)
          THEN /\ event.result.result = "Ok"
               /\ orchestrator # <<>>
               /\ orchestrator[1].wallet_guardian.mystical_address
                     = event.result.address
          ELSE /\ event.result.result = "AddressLacksCredibility"
               /\ orchestrator = <<>>
-----------------------------------------------------------------------------
(* C23 *)

\* C23: the saga returns a sanctuary for every transaction, the low-value,
\* low-gas-price transaction to an unknown contract included.
C23_EveryTransactionFindsSanctuary ==
    saga # <<>> =>
        /\ saga[1].outcome.result = "Ok"
        /\ saga[1].outcome.sanctuary # <<>>

-----------------------------------------------------------------------------
(* C24 *)

\* C24: for a transaction to one of the popular DeFi contracts the saga
\* succeeds with a sanctuary that is FullyShielded or SacredSanctuary.
C24_PopularTargetIsShielded ==
    (saga # <<>> /\ is_popular_defi_contract(saga[1].transaction.target_contract))
        => /\ saga[1].outcome.result = "Ok"
           /\ saga[1].outcome.sanctuary[1].security_level
                 \in {"FullyShielded", "SacredSanctuary"}

\* the saga of tales::the_happy_ending_saga has been run
C24_HappyEndingSagaRun ==
    /\ saga # <<>>
    /\ saga[1].transaction =
          InnocentTransaction("0x7a250d5630B4cF539739dF2C5dAcb4c659F2488D",
                              50000, 100, <<56, 237, 23, 57>>)
    /\ saga[1].outcome.result = "Ok"
-----------------------------------------------------------------------------
(* C25 *)

\* the verdict of each check of the validator on a story, taken alone
SignatureVerdict(story) ==
    LET verdict == signature_tells_the_truth(story)
    IN  IF verdict = "true" THEN "Ok"
        ELSE IF verdict = "false" THEN "StoryBearsFalseWitness"
        ELSE verdict

UniquenessVerdict(story) == story_proves_its_uniqueness(story, tx_db, mempool)

InputsResolve(story) ==
    \A ref \in SeqToSet(story.inputs_consumed) :
        find_unspent_output(unspent_outputs, utxo_db, utxo_key(ref)) # <<>>

ResolutionVerdict(story) ==
    IF InputsResolve(story) THEN "Ok" ELSE "UTXONotFound"

AuthorizationVerdict(story) ==
    IF InputsResolve(story)
       /\ \E ref \in SeqToSet(story.inputs_consumed) :
             verify_spending_authorization(
                 find_unspent_output(unspent_outputs, utxo_db, utxo_key(ref))[1],
                 story.public_key_of_narrator) # "Ok"
    THEN "Unauthorized" ELSE "Ok"

ValueVerdict(story) ==
    IF InputsResolve(story)
       /\ LimbsLess(ResolvedInputValue(story), SpentValue(story))
    THEN "NarratorLacksResources" ELSE "Ok"

FeeVerdict(story) ==
    IF u64_lt(story.story_fee, configuration.min_transaction_fee)
    THEN "InsufficientFee" ELSE "Ok"

NonceVerdict(story) == verify_transaction_nonce(story)

\* the first verdict of a sequence that is not Ok
RECURSIVE EarliestFailure(_)
EarliestFailure(verdicts) ==
    IF verdicts = <<>> THEN "Ok"
    ELSE IF Head(verdicts) # "Ok" THEN Head(verdicts)
    ELSE EarliestFailure(Tail(verdicts))

\* C25: the validator answers with the error of the earliest failing check
\* in the order signature, uniqueness, input resolution, authorization,
\* value, fee floor, replay nonce.
C25_EarliestFailingCheckIsReported ==
    phase = "Running" =>
        \A story \in ArrivingStories :
            ~OverflowsOnValidation(story) =>
                WouldReturn(story) =
                    EarliestFailure(<<SignatureVerdict(story),
                                      UniquenessVerdict(story),
                                      ResolutionVerdict(story),
                                      AuthorizationVerdict(story),
                                      ValueVerdict(story),
                                      FeeVerdict(story),
                                      NonceVerdict(story)>>)
-----------------------------------------------------------------------------
(* C26 *)

\* the key is one of the keys the output's spending descriptor names
AuthorizedBy(utxo, public_key) ==
    \E i \in 1..Len(utxo.locking_script.public_keys) :
        utxo.locking_script.public_keys[i] = public_key

\* C26: every pending story is signed by a key that the spending descriptor
\* of each output it consumes authorizes (stories admitted on a wrapped value
\* sum are left aside, they are C17's).
C26_SignerIsAuthorizedForEveryInput ==
    \A story \in SeqToSet(mempool) :
        ~OverflowsOnValidation(story) =>
            \A ref \in SeqToSet(story.inputs_consumed) :
                LET utxo == find_unspent_output(unspent_outputs, utxo_db,
                                                utxo_key(ref))
                IN  utxo # <<>> =>
                        AuthorizedBy(utxo[1], story.public_key_of_narrator)
-----------------------------------------------------------------------------
(* C27 *)

BelowFeeFloor(story) ==
    u64_lt(story.story_fee, configuration.min_transaction_fee)

\* C27: every story pending, drained for mining or stored in a chapter has a
\* fee of at least the configured minimum, and an arriving story with a
\* lower fee is rejected, with the fee error when its signature, inputs and
\* value are in order.
C27_FeeFloorIsEnforced ==
    /\ \A story \in HeldStories : ~BelowFeeFloor(story)
    /\ phase = "Running" =>
          \A story \in ArrivingStories :
              BelowFeeFloor(story) =>
                  /\ WouldReturn(story) # "Ok"
                  /\ (/\ SignatureVerdict(story) = "Ok"
                      /\ ResolutionVerdict(story) = "Ok"
                      /\ ValueVerdict(story) = "Ok")
                     => WouldReturn(story) = "InsufficientFee"

\* a story below the floor was just rejected while stories at or above it
\* are pending and stored
C27_LowFeeRejectedBesideHeldStories ==
    /\ Arrived
    /\ event.result = "Rejected"
    /\ mempool # <<>>
    /\ StoredStories # {}
    /\ \E story \in ArrivingStories :
          /\ story.story_fee = U64(0)
          /\ WouldReturn(story) = "InsufficientFee"
-----------------------------------------------------------------------------
(* C28 *)

\* the workers of the search that have run their loop
WorkersRun == {t \in ThreadIds : workers # <<>> /\ workers[t + 1] # "spawned"}

\* C28: no nonce is hashed by two different workers of one search: the
\* ranges of nonces the workers have gone through are pairwise disjoint.
C28_NoNonceIsHashedTwice ==
    \A t \in WorkersRun : \A u \in WorkersRun \ {t} :
        LET mine == HashedRange(pow_block, t)
            theirs == HashedRange(pow_block, u)
        IN  mine.to <= theirs.from \/ theirs.to <= mine.from
-----------------------------------------------------------------------------
(* C29 *)

\* perform_proof_of_work has received a proof and called abort on every
\* worker
ProofReceived == pow_pc = "returned" /\ pow_out[1] = "Ok"

\* C29: once a proof has been received and the siblings cancelled, no
\* sibling goes on through its range or sends (it stays as it is or ends
\* aborted), and nothing a sibling sent changes the block store after the
\* search's one chapter was committed.
C29_SiblingsStopAfterFirstProof ==
    [][ProofReceived =>
          /\ \A t \in ThreadIds :
                workers[t + 1] = "spawned"
                    => workers'[t + 1] \in {"spawned", "aborted"}
          /\ channel' = channel
          /\ miner_pc = "sleep" => block_db' = block_db]_vars
-----------------------------------------------------------------------------
(* C30 *)

\* The genesis target is written as a 64-digit hexadecimal literal
\* 0x0FFF...F, which has no u64 value: its low 64 bits are u64::MAX (no
\* leading zero asked for), its leading 16 digits are 0x0FFF_FFFF_FFFF_FFFF
\* (one leading zero asked for, as the literal's first digit says).
GenesisTargetReadings == {U64_MAX, <<4095, 65535, 65535, 65535>>}

\* the chapter's essence has the leading zero characters its own recorded
\* target asks for
MeetsRecordedTarget(block) ==
    hash_meets_difficulty(block.chapter_essence,
                          block.proof_of_storytelling.difficulty_target)

\* C30: the genesis chapter, under either reading of its target, and every
\* chapter committed by a search have an essence that meets the difficulty
\* target recorded in them.
C30_CommittedEssenceMeetsTarget ==
    \A n \in DOMAIN block_db :
        (\/ /\ n = 0
            /\ block_db[n].proof_of_storytelling.difficulty_target
                  \in GenesisTargetReadings
         \/ (pow_block # <<>> /\ n = pow_block.chapter_number))
            => MeetsRecordedTarget(block_db[n])

-----------------------------------------------------------------------------
(* C31 *)

\* the stories of a sequence, and how many times one of them stands in it
StoriesOf(seq) == {seq[i] : i \in 1..Len(seq)}

Copies(story, seq) == Cardinality({i \in 1..Len(seq) : seq[i] = story})

\* a step in which the mining task leaves its critical section with a batch
BatchSelected == miner_pc = "sleep" /\ miner_pc' = "mine"

\* C31: in a period with a non-empty pool the mining task selects
\* min(1000, pool size) transactions; no transaction left in the pool has a
\* higher fee than a selected one; and the same step removes the selected
\* transactions from the pool (what is selected and what is left are together
\* the pool as it was, story for story).
C31_BatchIsTheHighestFees ==
    [][BatchSelected =>
        /\ mempool # <<>>
        /\ Len(selected') = Min(1000, Len(mempool))
        /\ \A i \in 1..Len(selected') : \A j \in 1..Len(mempool') :
              ~u64_lt(selected'[i].story_fee, mempool'[j].story_fee)
        /\ Len(mempool') = Len(mempool) - Len(selected')
        /\ StoriesOf(selected') \cup StoriesOf(mempool') = StoriesOf(mempool)
        /\ \/ Cardinality(StoriesOf(mempool)) = Len(mempool)
           \/ \A story \in StoriesOf(mempool) :
                 Copies(story, mempool)
                    = Copies(story, selected') + Copies(story, mempool')]_vars

\* a batch of the cap's size was drained from a larger pool whose stories
\* arrived with mixed fees, and stories are left in the pool
C31_CapReachedWithStoriesLeft ==
    /\ miner_pc = "mine"
    /\ Len(selected) = BatchCap
    /\ mempool # <<>>
    /\ \E i \in 1..Len(selected) :
          u64_lt(mempool[1].story_fee, selected[i].story_fee)

-----------------------------------------------------------------------------
(* C32 *)

\* C32: the mining task never blocks for good: every mining attempt ends
\* and the task is back at the sleep that opens its next period (where a
\* story that is still in the pool is selected), also when the search of the
\* attempt finds no qualifying nonce.
C32_EveryAttemptReturnsToThePeriod ==
    [](miner_pc = "mine" => <>(miner_pc = "sleep"))

-----------------------------------------------------------------------------
(* C33 *)

\* C33: a call of add_block_chapter that returns a storage error leaves the
\* block store, the transaction store, the tip and the hash index as they
\* were before the call: no chapter stays stored without all of its stories
\* and neither the tip nor the index names the chapter that failed.
C33_FailedAppendLeavesNoTrace ==
    [][event'.op = "add_block_chapter" /\ event'.result = "DatabaseError"
          => UNCHANGED <<block_db, tx_db, chain_tip, block_index>>]_vars

-----------------------------------------------------------------------------
(* C34 *)

\* one level of the reference tree: the i-th hash of the next level is the
\* hash of the (2i-1)-th hash followed by the 2i-th, or by the (2i-1)-th
\* again where there is no 2i-th
ReferenceLevel(hashes) ==
    [i \in 1..((Len(hashes) + 1) \div 2) |->
        Sha256Hex(hashes[2 * i - 1]
                  \o hashes[IF 2 * i <= Len(hashes) THEN 2 * i ELSE 2 * i - 1])]

RECURSIVE ReferenceFold(_)
ReferenceFold(hashes) ==
    IF Len(hashes) = 1 THEN hashes[1] ELSE ReferenceFold(ReferenceLevel(hashes))

ReferenceRoot(ids) ==
    IF ids = <<>>
    THEN "0000000000000000000000000000000000000000000000000000000000000000"
    ELSE ReferenceFold([i \in 1..Len(ids) |-> Sha256Hex(ids[i])])

\* C34: the Merkle root of a candidate is the reference fold of the
\* identifiers of its stories: leaf hashes of the identifiers, neighbours
\* concatenated and hashed level by level, an odd last hash paired with
\* itself, the leaf hash itself for one identifier, and 64 zero characters
\* for no identifier.
C34_MerkleRootIsTheReferenceFold ==
    pow_block # <<>> =>
        pow_block.merkle_tree_of_truth
            = ReferenceRoot([i \in 1..Len(pow_block.transaction_tales) |->
                                pow_block.transaction_tales[i].story_id])

\* candidates were assembled over five stories (two odd levels), and the
\* model holds the cases of one story and of none
C34_OddLevelsFolded ==
    /\ pow_block # <<>>
    /\ Len(pow_block.transaction_tales) = 5
    /\ pow_block.merkle_tree_of_truth
          = Sha256Hex(
               Sha256Hex(Sha256Hex(Sha256Hex("a") \o Sha256Hex("b"))
                         \o Sha256Hex(Sha256Hex("c") \o Sha256Hex("a")))
               \o Sha256Hex(Sha256Hex(Sha256Hex("b") \o Sha256Hex("b"))
                            \o Sha256Hex(Sha256Hex("b") \o Sha256Hex("b"))))

-----------------------------------------------------------------------------
(* C35 *)

\* a step in which new_chronicle_begins runs, from the idle node to its end
StartsUp == phase = "Idle" /\ phase' # "Idle"

\* C35: the node leaves Idle only through new_chronicle_begins, whose
\* bootstrapping commits the genesis chapter before the node is Running; the
\* genesis chapter is written in a start-up exactly when the block store is
\* empty (a start-up over stored chapters changes nothing in the repository);
\* and the mining task commits a chapter only on a genesis chapter or
\* another tip that is present.
C35_GenesisOnlyOnAnEmptyStore ==
    /\ [][phase' # phase =>
             \/ StartsUp /\ event'.op = "new_chronicle_begins"
                         /\ phase' \in {"Running", "Failed"}
             \/ phase' = "Idle" /\ event'.op = "exit"]_vars
    /\ [](phase = "Running" => 0 \in DOMAIN block_db)
    /\ [][StartsUp =>
             IF chain_is_empty(block_db)
             THEN phase' = "Running" =>
                     /\ block_db' = Put(EmptyMap, 0, GenesisChapter(current_timestamp))
                     /\ chain_tip' = <<GenesisChapter(current_timestamp)>>
             ELSE /\ UNCHANGED <<block_db, tx_db, chain_tip, block_index>>
                  /\ phase' = "Running"]_vars
    /\ [][event'.op = "mine_new_chapter" /\ block_db' # block_db =>
             /\ phase = "Running"
             /\ get_chain_tip(chain_tip, block_db) # <<>>
             /\ \E n \in DOMAIN block_db' \ {0} :
                   block_db'[n].previous_chapter_essence
                      = get_chain_tip(chain_tip, block_db)[1].chapter_essence]_vars

\* the node was started again over a chain of two chapters, wrote no second
\* genesis chapter, and its mining task has drained a batch to mine on the
\* tip it loads from the store
C35_RestartedOverAChain ==
    /\ phase = "Running"
    /\ DOMAIN block_db = {0, 1}
    /\ chain_tip = <<>>
    /\ miner_pc = "mine"

-----------------------------------------------------------------------------
(* C36 *)

\* C36: after an admission the pool holds at most 10,000 stories, and a
\* story whose admission returned success and was broadcast is in the pool
\* when the admission ends: the size cap never evicts the story that is
\* being accepted.
C36_AcceptedStoryIsPending ==
    /\ [](Arrived => Len(mempool) <= 10000)
    /\ [][event'.op = "transaction_story_arrives" /\ event'.result = "Ok" =>
             \A id \in broadcasts' \ broadcasts :
                \E i \in 1..Len(mempool') : mempool'[i].story_id = id]_vars

-----------------------------------------------------------------------------
(* C37 *)

\* the sanctuary Act III builds for the transaction of the last saga, <<>>
\* when the saga ended before Act III
SanctuaryBuilt ==
    LET entered == transaction_enters_dangerous_waters(saga[1].transaction)
        awakened == guardian_temple_awakens_to_protect(entered.transaction,
                                                       entered.threats)
    IN  IF awakened.result # "Ok" THEN <<>>
        ELSE <<create_protected_sanctuary(awakened.guardian[1],
                                          awakened.spells)>>

\* C37: a saga that gets as far as building a sanctuary builds one whose
\* security level is not Vulnerable, so no saga ends in SanctuaryBreach: a
\* saga returns Ok or GuardianOverwhelmed.
C37_NoSanctuaryIsVulnerable ==
    saga # <<>> =>
        /\ SanctuaryBuilt # <<>> =>
              SanctuaryBuilt[1].security_level # "Vulnerable"
        /\ saga[1].outcome.result \in {"Ok", "GuardianOverwhelmed"}
        /\ saga[1].outcome.result = "Ok" =>
              saga[1].outcome.sanctuary = SanctuaryBuilt

\* a saga reached its sanctuary with the least protection there is: no
\* shadow hunter, hence the base shield strength, and a single spell
C37_WeakestSanctuaryReached ==
    /\ saga # <<>>
    /\ saga[1].outcome.result = "Ok"
    /\ saga[1].outcome.sanctuary[1].security_level = "PartiallyProtected"
    /\ transaction_enters_dangerous_waters(saga[1].transaction).threats = <<>>

-----------------------------------------------------------------------------
(* C38: a ritual that fails leaves the guardian as it was *)

\* the step was a call of spirit_performs_sacred_ritual
RitualPerformed == event'.op = "spirit_performs_sacred_ritual"

\* C38: when spirit_performs_sacred_ritual returns an error the guardian's
\* assets and legend book are what they were before the call, and when it
\* returns Ok the legend book is longer by exactly one quest.
C38_FailedRitualLeavesTheGuardianUnchanged ==
    [][RitualPerformed =>
          /\ event'.result # "Ok" => wallet_guardian' = wallet_guardian
          /\ event'.result = "Ok" =>
                /\ Len(wallet_guardian'[1].legend_book)
                      = Len(wallet_guardian[1].legend_book) + 1
                /\ SubSeq(wallet_guardian'[1].legend_book, 1,
                          Len(wallet_guardian[1].legend_book))
                      = wallet_guardian[1].legend_book]_vars

====
